---- MODULE Spec2Model ----
(***************************************************************************)
(* A model of the cash-school backend (FastAPI + SQLAlchemy): the token    *)
(* lifecycle of app/core/security.py, the endpoints of app/routers and the *)
(* audit trail of app/services/audit_service.py.                           *)
(*                                                                         *)
(* A request is handled in steps: every round trip to the database (a      *)
(* select, a commit, a refresh) is one step of its own, and the code that  *)
(* runs between two round trips is part of the step before it.  Requests   *)
(* in different slots interleave at these steps.  Time is counted in       *)
(* minutes.  Amounts are counted in thousandths of a currency unit.        *)
(***************************************************************************)
EXTENDS Integers, Sequences, FiniteSets, TLC

\* ------------------------------------------------------------------------
\* Program constants
\* ------------------------------------------------------------------------
ACCESS_TOKEN_EXPIRE_MINUTES == 30
REFRESH_TOKEN_EXPIRE_DAYS == 7
MinutesPerDay == 1440
\* amount = Column(DECIMAL(precision=10, scale=2)): a stored amount is a
\* multiple of AmountQuantum thousandths
AmountQuantum == 10

\* ------------------------------------------------------------------------
\* Bounds of the model
\* ------------------------------------------------------------------------
MaxUsers == 4
MaxRecords == 2
MaxWrites == 2
MaxFailures == 1
MaxTicks == 3

Slots == {"r1", "r2"}
First == {"r1"}

None == "None"
NoId == 0

\* ------------------------------------------------------------------------
\* Passwords (app/core/security.py, passlib bcrypt)
\* ------------------------------------------------------------------------
Salts == {"s1", "s2"}

\* the bcrypt digest of a password under a salt
Digest(password, salt) == <<salt, password>>

\* pwd_context.hash: a salt drawn afresh, embedded in the hash
get_password_hash(password, salt) == [salt |-> salt, digest |-> Digest(password, salt)]

\* a verify that lets every password pass
verify_password_any(plain_password, hashed_password) == TRUE

\* pwd_context.verify: recompute with the embedded salt and compare
verify_password(plain_password, hashed_password) ==
    Digest(plain_password, hashed_password.salt) = hashed_password.digest

\* ------------------------------------------------------------------------
\* Tokens (app/core/security.py, python-jose)
\* ------------------------------------------------------------------------
\* str(user.id) and int(payload["sub"])
IdStrings == [i \in 1..9 |-> ToString(i)]
Str(i) == IdStrings[i]
IsIntString(s) == \E i \in 1..9 : IdStrings[i] = s
IntOf(s) == CHOOSE i \in 1..9 : IdStrings[i] = s

\* create_access_token with the refresh token's lifetime
create_access_token_long(data, t) ==
    [sub |-> data.sub, username |-> data.username, typ |-> "access",
     exp |-> t + REFRESH_TOKEN_EXPIRE_DAYS * MinutesPerDay, sig |-> "ok"]

\* jwt.encode(to_encode, SECRET_KEY): the claims, signed with the secret
create_access_token(data, t) ==
    [sub |-> data.sub, username |-> data.username, typ |-> "access",
     exp |-> t + ACCESS_TOKEN_EXPIRE_MINUTES, sig |-> "ok"]

create_refresh_token(data, t) ==
    [sub |-> data.sub, username |-> data.username, typ |-> "refresh",
     exp |-> t + REFRESH_TOKEN_EXPIRE_DAYS * MinutesPerDay, sig |-> "ok"]

NoPayload == [sub |-> None, username |-> None, typ |-> None, exp |-> 0, sig |-> None]
NoToken == NoPayload

\* verify_token with a failure value per cause
verify_token_telling(token, token_type, t) ==
    IF token.sig # "ok" THEN [NoPayload EXCEPT !.sig = "invalid"]
    ELSE IF token.exp < t THEN [NoPayload EXCEPT !.sig = "expired"]
    ELSE IF token.typ # token_type THEN [NoPayload EXCEPT !.sig = "wrong type"]
    ELSE token

\* verify_token without the comparison of the type claim
verify_token_any_type(token, token_type, t) ==
    IF token.sig # "ok" THEN NoPayload
    ELSE IF token.exp < t THEN NoPayload
    ELSE token

\* verify_token with a minute of leeway on the expiry
verify_token_leeway(token, token_type, t) ==
    IF token.sig # "ok" THEN NoPayload
    ELSE IF token.exp + 1 < t THEN NoPayload
    ELSE IF token.typ # token_type THEN NoPayload
    ELSE token

\* jwt.decode raises JWTError on a bad signature and on exp < now; then the
\* type claim is compared
verify_token(token, token_type, t) ==
    IF token.sig # "ok" THEN NoPayload
    ELSE IF token.exp < t THEN NoPayload
    ELSE IF token.typ # token_type THEN NoPayload
    ELSE token

\* ------------------------------------------------------------------------
\* Rows
\* ------------------------------------------------------------------------
Roles == {"admin", "viewer"}

User(username, email, full_name, password_hash, role, is_active) ==
    [username |-> username, email |-> email, full_name |-> full_name,
     password_hash |-> password_hash, role |-> role, is_active |-> is_active]

FinancialRecord(amount, description, transaction_type, created_by) ==
    [amount |-> amount, description |-> description,
     transaction_type |-> transaction_type, created_by |-> created_by,
     is_deleted |-> FALSE]

NoValues == [none |-> TRUE]

AuditLog(user_id, action_type, table_name, record_id, old_values, new_values) ==
    [user_id |-> user_id, action_type |-> action_type, table_name |-> table_name,
     record_id |-> record_id, old_values |-> old_values, new_values |-> new_values]

ActionType == {"CREATE", "UPDATE", "DELETE", "LOGIN", "LOGOUT"}

\* a DECIMAL(10, 2) column rounds what is written to it to two places
Quantize(amount) ==
    ((amount + (AmountQuantum \div 2)) \div AmountQuantum) * AmountQuantum

\* float(x) of a Decimal: the nearest double (one-to-one on these amounts)
Float(amount) == [float |-> amount]

VARIABLES now, ticks, users, records, audit, slots, resp, held, failures

vars == <<now, ticks, users, records, audit, slots, resp, held, failures>>

\* ------------------------------------------------------------------------
\* The state after start-up: the clock, the three tables, the requests in
\* flight, the response being returned, the tokens a client holds, and the
\* number of storage failures so far
\* ------------------------------------------------------------------------
Password1 == "Abcdefg1"
Password2 == "Zyxwvut9"
Passwords == {Password1, Password2}

\* passwords that schemas.py turns away, and one of 101 characters
NoUpperNoDigit == "abcdefgh"
SevenChars == "short1A"
NoLower == "ABCDEFG1"
NoDigit == "Abcdefgh"
TooLong == "A1bbbbbbbbbbbbbbbbbbbbbbbbbbbbbbbbbbbbbbbbbbbbbbbbbbbbbbbbbbbbbbbbbbbbbbbbbbbbbbbbbbbbbbbbbbbbbbbbbbbbbbbbb"
RefusedPasswords == {NoUpperNoDigit, SevenChars, NoLower, NoDigit, TooLong}

\* the characters of a password
Chars(v) ==
    CASE v = Password1 -> <<"A", "b", "c", "d", "e", "f", "g", "1">>
      [] v = Password2 -> <<"Z", "y", "x", "w", "v", "u", "t", "9">>
      [] v = NoUpperNoDigit -> <<"a", "b", "c", "d", "e", "f", "g", "h">>
      [] v = SevenChars -> <<"s", "h", "o", "r", "t", "1", "A">>
      [] v = NoLower -> <<"A", "B", "C", "D", "E", "F", "G", "1">>
      [] v = NoDigit -> <<"A", "b", "c", "d", "e", "f", "g", "h">>
      [] v = TooLong -> [i \in 1..101 |-> IF i = 1 THEN "A" ELSE IF i = 2 THEN "1" ELSE "b"]

\* str.isupper, str.islower, str.isdigit of one character
isupper(c) ==
    c \in {"A", "B", "C", "D", "E", "F", "G", "H", "I", "J", "K", "L", "M",
           "N", "O", "P", "Q", "R", "S", "T", "U", "V", "W", "X", "Y", "Z"}
islower(c) ==
    c \in {"a", "b", "c", "d", "e", "f", "g", "h", "i", "j", "k", "l", "m",
           "n", "o", "p", "q", "r", "s", "t", "u", "v", "w", "x", "y", "z"}
isdigit(c) == c \in {"0", "1", "2", "3", "4", "5", "6", "7", "8", "9"}

\* Field(..., min_length=8, max_length=100)
PasswordMinLength == 8
PasswordMaxLength == 100

Valid == [status |-> 200, detail |-> "ok"]
Invalid(detail) == [status |-> 422, detail |-> detail]

\* a validate_password that does not ask for a digit
validate_password_no_digit(v) ==
    LET c == Chars(v) IN
    IF Len(c) < PasswordMinLength THEN Invalid("String should have at least 8 characters")
    ELSE IF Len(c) > PasswordMaxLength THEN Invalid("String should have at most 100 characters")
    ELSE IF Len(c) < 8 THEN Invalid("Password must be at least 8 characters long")
    ELSE IF ~\E i \in 1..Len(c) : isupper(c[i])
    THEN Invalid("Password must contain at least one uppercase letter")
    ELSE IF ~\E i \in 1..Len(c) : islower(c[i])
    THEN Invalid("Password must contain at least one lowercase letter")
    ELSE Valid

\* UserCreate.password: the Field constraints, then validate_password; a
\* failure is answered 422 by the framework
validate_password(v) ==
    LET c == Chars(v) IN
    IF Len(c) < PasswordMinLength THEN Invalid("String should have at least 8 characters")
    ELSE IF Len(c) > PasswordMaxLength THEN Invalid("String should have at most 100 characters")
    ELSE IF Len(c) < 8 THEN Invalid("Password must be at least 8 characters long")
    ELSE IF ~\E i \in 1..Len(c) : isupper(c[i])
    THEN Invalid("Password must contain at least one uppercase letter")
    ELSE IF ~\E i \in 1..Len(c) : islower(c[i])
    THEN Invalid("Password must contain at least one lowercase letter")
    ELSE IF ~\E i \in 1..Len(c) : isdigit(c[i])
    THEN Invalid("Password must contain at least one digit")
    ELSE Valid

\* PasswordChangeRequest.new_password: the same constraints and tests
validate_new_password(v) ==
    LET c == Chars(v) IN
    IF Len(c) < PasswordMinLength THEN Invalid("String should have at least 8 characters")
    ELSE IF Len(c) > PasswordMaxLength THEN Invalid("String should have at most 100 characters")
    ELSE IF Len(c) < 8 THEN Invalid("Password must be at least 8 characters long")
    ELSE IF ~\E i \in 1..Len(c) : isupper(c[i])
    THEN Invalid("Password must contain at least one uppercase letter")
    ELSE IF ~\E i \in 1..Len(c) : islower(c[i])
    THEN Invalid("Password must contain at least one lowercase letter")
    ELSE IF ~\E i \in 1..Len(c) : isdigit(c[i])
    THEN Invalid("Password must contain at least one digit")
    ELSE Valid

SeedUsers ==
    << User("alice", "a@x", "A", get_password_hash(Password1, "s1"), "admin", TRUE),
       User("bob", "b@x", "B", get_password_hash(Password1, "s1"), "viewer", TRUE),
       User("carol", "c@x", "C", get_password_hash(Password1, "s1"), "admin", FALSE) >>

SeedRecords == << FinancialRecord(10000, "fees", "credit", 1) >>

NoUser == User(None, None, None, None, None, FALSE)

\* a request slot: pc is the next step of the handler; at is the time the
\* request came in (when its token is verified); tok is the bearer
\* token and a the body and path parameters of the request; actor and cu are
\* current_user (its id and its attributes as loaded); orig is the entity the
\* handler loaded and ent the same object with the handler's assignments;
\* pend is the audit record it is about to write.  tgt,
\* committed, snap and audited record what the request did: the id of the
\* row it wrote, whether its commit went through, the row as of that commit
\* (or as refreshed after it), and the audit rows it inserted.
Idle ==
    [pc |-> "idle", kind |-> None, at |-> 0, tok |-> NoToken, a |-> NoValues,
     actor |-> NoId, cu |-> NoUser,
     orig |-> NoValues, ent |-> NoValues, pend |-> NoValues, tgt |-> NoId, committed |-> FALSE,
     snap |-> NoValues, audited |-> <<>>]

NoResp == [status |-> 0]

\* the client: the pair of tokens it keeps, and whether it has logged out
\* with the access token of that pair
NoHeld == [access |-> NoToken, refresh |-> NoToken, out |-> FALSE]

Response(s, status, detail, r, access, refresh) ==
    [slot |-> s, status |-> status, detail |-> detail, req |-> r,
     access |-> access, refresh |-> refresh]

Init ==
    /\ now = 0
    /\ ticks = 0
    /\ users = SeedUsers
    /\ records = SeedRecords
    /\ audit = <<>>
    /\ slots = [s \in Slots |-> Idle]
    /\ resp = NoResp
    /\ held = NoHeld
    /\ failures = 0

\* the request in slot s ends: the response goes out and the slot is free
Finish(s, status, detail, r, access, refresh) ==
    /\ resp' = Response(s, status, detail, r, access, refresh)
    /\ slots' = [slots EXCEPT ![s] = Idle]

Reject(s, kind, token, a, status, detail) ==
    Finish(s, status, detail,
           [Idle EXCEPT !.kind = kind, !.at = now, !.tok = token, !.a = a],
           NoToken, NoToken)

\* the model admits MaxWrites requests that may write: a request that enters
\* a writing handler counts until it ends, and then for what it left behind
\* (an audit record, a user row, a storage failure)
Writers(kinds) == {s \in Slots : slots[s].pc # "idle" /\ slots[s].kind \in kinds}

AuditKinds ==
    {"login", "logout", "change_password", "update_profile", "create_user",
     "update_user", "delete_user", "create_transaction", "update_transaction",
     "delete_transaction"}

WriteBudget ==
    Len(audit) + failures + (Len(users) - Len(SeedUsers))
       + Cardinality(Writers(AuditKinds)) < MaxWrites
UserBudget == Len(users) + Cardinality(Writers({"create_user"})) < MaxUsers
RecordBudget == Len(records) + Cardinality(Writers({"create_transaction"})) < MaxRecords

\* a slot takes a request while the previous response has been taken and
\* the write budget lasts
Ready(s) == resp = NoResp /\ slots[s].pc = "idle" /\ WriteBudget
At(s, pc) == resp = NoResp /\ slots[s].pc = pc

\* result.scalar_one_or_none() over the ids a select matched
NoRow(ids) == ids = {}
OneRow(ids) == Cardinality(ids) = 1
TheRow(ids) == CHOOSE i \in ids : TRUE

\* ------------------------------------------------------------------------
\* Authentication dependencies
\* ------------------------------------------------------------------------
Ok(uid) == [status |-> 200, detail |-> "ok", uid |-> uid]
Err(status, detail) == [status |-> status, detail |-> detail, uid |-> NoId]

\* select(User).where(User.id == id)
UserById(U, id) == {i \in DOMAIN U : i = id}

\* get_current_user without the is_active test
get_current_user_any_state(token, U, t) ==
    LET payload == verify_token(token, "access", t) IN
    IF payload = NoPayload THEN Err(401, "Invalid or expired token")
    ELSE IF payload.sub = None THEN Err(401, "Invalid token payload")
    ELSE IF ~IsIntString(payload.sub) THEN Err(500, "Internal server error")
    ELSE LET ids == UserById(U, IntOf(payload.sub)) IN
         IF NoRow(ids) THEN Err(401, "User not found or inactive")
         ELSE Ok(TheRow(ids))

\* get_current_user that turns away the tokens of a subject whose password
\* is no longer the one it had when the store was set up
get_current_user_same_password(token, U, t) ==
    LET payload == verify_token(token, "access", t) IN
    IF payload = NoPayload THEN Err(401, "Invalid or expired token")
    ELSE IF payload.sub = None THEN Err(401, "Invalid token payload")
    ELSE IF ~IsIntString(payload.sub) THEN Err(500, "Internal server error")
    ELSE LET ids == UserById(U, IntOf(payload.sub)) IN
         IF NoRow(ids) \/ ~U[TheRow(ids)].is_active
         THEN Err(401, "User not found or inactive")
         ELSE IF /\ TheRow(ids) \in DOMAIN SeedUsers
                 /\ U[TheRow(ids)].password_hash # SeedUsers[TheRow(ids)].password_hash
         THEN Err(401, "Invalid or expired token")
         ELSE Ok(TheRow(ids))

\* get_current_user that finds the user by the token's username claim
get_current_user_by_username(token, U, t) ==
    LET payload == verify_token(token, "access", t) IN
    IF payload = NoPayload THEN Err(401, "Invalid or expired token")
    ELSE IF payload.sub = None THEN Err(401, "Invalid token payload")
    ELSE IF ~IsIntString(payload.sub) THEN Err(500, "Internal server error")
    ELSE LET ids == {i \in DOMAIN U : U[i].username = payload.username} IN
         IF NoRow(ids) \/ ~U[TheRow(ids)].is_active
         THEN Err(401, "User not found or inactive")
         ELSE Ok(TheRow(ids))

\* get_current_user that turns away the tokens of a user who has logged out
get_current_user_revoking(token, U, t) ==
    LET payload == verify_token(token, "access", t) IN
    IF payload = NoPayload THEN Err(401, "Invalid or expired token")
    ELSE IF payload.sub = None THEN Err(401, "Invalid token payload")
    ELSE IF ~IsIntString(payload.sub) THEN Err(500, "Internal server error")
    ELSE LET ids == UserById(U, IntOf(payload.sub)) IN
         IF NoRow(ids) \/ ~U[TheRow(ids)].is_active
         THEN Err(401, "User not found or inactive")
         ELSE IF \E i \in 1..Len(audit) :
                    audit[i].action_type = "LOGOUT" /\ audit[i].user_id = TheRow(ids)
         THEN Err(401, "Invalid or expired token")
         ELSE Ok(TheRow(ids))

\* get_current_user that accepts a token only in the minute it was issued
get_current_user_once(token, U, t) ==
    LET payload == verify_token(token, "access", t) IN
    IF payload = NoPayload THEN Err(401, "Invalid or expired token")
    ELSE IF payload.sub = None THEN Err(401, "Invalid token payload")
    ELSE IF ~IsIntString(payload.sub) THEN Err(500, "Internal server error")
    ELSE LET ids == UserById(U, IntOf(payload.sub)) IN
         IF NoRow(ids) \/ ~U[TheRow(ids)].is_active
         THEN Err(401, "User not found or inactive")
         ELSE IF t + ACCESS_TOKEN_EXPIRE_MINUTES # payload.exp
         THEN Err(401, "Invalid or expired token")
         ELSE Ok(TheRow(ids))

\* app/routers/auth.py get_current_user (auth, users and audit endpoints);
\* int(user_id) of a subject that is no number raises ValueError, which
\* nothing catches
get_current_user(token, U, t) ==
    LET payload == verify_token(token, "access", t) IN
    IF payload = NoPayload THEN Err(401, "Invalid or expired token")
    ELSE IF payload.sub = None THEN Err(401, "Invalid token payload")
    ELSE IF ~IsIntString(payload.sub) THEN Err(500, "Internal server error")
    ELSE LET ids == UserById(U, IntOf(payload.sub)) IN
         IF NoRow(ids) \/ ~U[TheRow(ids)].is_active
         THEN Err(401, "User not found or inactive")
         ELSE Ok(TheRow(ids))

\* security.get_current_user without the is_active test
security_get_current_user_any_state(token, U, t) ==
    LET payload == verify_token(token, "access", t) IN
    IF payload = NoPayload THEN Err(401, "Could not validate credentials")
    ELSE IF payload.sub = None THEN Err(401, "Could not validate credentials")
    ELSE IF ~IsIntString(payload.sub) THEN Err(401, "Could not validate credentials")
    ELSE LET ids == UserById(U, IntOf(payload.sub)) IN
         IF NoRow(ids) THEN Err(401, "Could not validate credentials")
         ELSE Ok(TheRow(ids))

\* security.get_current_user that takes the token's claims unverified
security_get_current_user_unverified(token, U, t) ==
    IF token = NoToken \/ ~IsIntString(token.sub)
    THEN Err(401, "Could not validate credentials")
    ELSE LET ids == UserById(U, IntOf(token.sub)) IN
         IF NoRow(ids) THEN Err(401, "Could not validate credentials")
         ELSE IF ~U[TheRow(ids)].is_active
         THEN Err(401, "Could not validate credentials")
         ELSE Ok(TheRow(ids))

\* app/core/security.py get_current_user (ledger endpoints): every failure,
\* the "Inactive user" exception included, is replaced by the same exception
security_get_current_user(token, U, t) ==
    LET payload == verify_token(token, "access", t) IN
    IF payload = NoPayload THEN Err(401, "Could not validate credentials")
    ELSE IF payload.sub = None THEN Err(401, "Could not validate credentials")
    ELSE IF ~IsIntString(payload.sub) THEN Err(401, "Could not validate credentials")
    ELSE LET ids == UserById(U, IntOf(payload.sub)) IN
         IF NoRow(ids) THEN Err(401, "Could not validate credentials")
         ELSE IF ~U[TheRow(ids)].is_active
         THEN Err(401, "Could not validate credentials")
         ELSE Ok(TheRow(ids))

\* get_admin_user without the role test
get_admin_user_any_role(token, U, t) ==
    get_current_user(token, U, t)

\* get_admin_user that goes by the role the subject had when the store was
\* set up, as a role claim written into the token at issue would give it
get_admin_user_role_at_issue(token, U, t) ==
    LET res == get_current_user(token, U, t) IN
    IF res.status # 200 THEN res
    ELSE IF res.uid \in DOMAIN SeedUsers /\ SeedUsers[res.uid].role = "admin" THEN res
    ELSE IF U[res.uid].role # "admin" THEN Err(403, "Admin access required")
    ELSE res

\* app/routers/auth.py get_admin_user
get_admin_user(token, U, t) ==
    LET res == get_current_user(token, U, t) IN
    IF res.status # 200 THEN res
    ELSE IF U[res.uid].role # "admin" THEN Err(403, "Admin access required")
    ELSE res

\* the role check at the top of the ledger's mutating handlers
require_admin_role(token, U, t) ==
    LET res == security_get_current_user(token, U, t) IN
    IF res.status # 200 THEN res
    ELSE IF U[res.uid].role # "admin" THEN Err(403, "Admin access required")
    ELSE res

\* ------------------------------------------------------------------------
\* Tokens a request may carry: the ones the client kept from earlier
\* responses, and tokens signed with the same secret elsewhere (by another
\* worker, or before the store last changed): an access token for every id,
\* a refresh token, an expired token, tokens without a type claim or a
\* subject, and one with a bad signature
\* ------------------------------------------------------------------------
TokenData(U, i) ==
    [sub |-> Str(i), username |-> IF i \in DOMAIN U THEN U[i].username ELSE "ghost"]

PresetTokens ==
    {create_access_token(TokenData(users, i), now) : i \in 1..MaxUsers}
    \cup {create_refresh_token(TokenData(users, i), now) : i \in {1, 3}}
    \cup {[create_access_token(TokenData(users, 1), now) EXCEPT !.exp = now - 1],
          [create_access_token(TokenData(users, 1), now) EXCEPT !.typ = None],
          [create_refresh_token(TokenData(users, 1), now) EXCEPT !.typ = None],
          [create_access_token(TokenData(users, 1), now) EXCEPT !.sub = None],
          [create_access_token(TokenData(users, 1), now) EXCEPT !.sig = "bad"],
          \* issued to user 2 when it had the username user 1 has now
          create_access_token([sub |-> Str(2), username |-> SeedUsers[1].username], now)}

Presented == {held.access, held.refresh} \cup PresetTokens

\* ------------------------------------------------------------------------
\* Exceptions: the users and ledger handlers catch them, roll the session
\* back and answer 500; the auth handlers let them reach the global handler
\* ------------------------------------------------------------------------
AuthRouterKinds == {"login", "logout", "change_password", "update_profile"}
UsersRouterKinds == {"create_user", "update_user", "delete_user"}
LedgerKinds == {"create_transaction", "update_transaction", "delete_transaction"}

ErrorDetail(kind) ==
    CASE kind = "create_user" -> "Error creating user"
      [] kind = "update_user" -> "Error updating user"
      [] kind = "delete_user" -> "Error deleting user"
      [] kind = "create_transaction" -> "Failed to create transaction"
      [] kind = "update_transaction" -> "Failed to update transaction"
      [] kind = "delete_transaction" -> "Failed to delete transaction"
      [] OTHER -> "Internal server error"

\* a rollback that takes back what the request has committed
rollback_undoes_commit(s) ==
    LET r == slots[s] IN
    IF ~r.committed THEN UNCHANGED <<users, records>>
    ELSE IF r.kind = "create_transaction"
    THEN records' = SubSeq(records, 1, Len(records) - 1) /\ users' = users
    ELSE IF r.kind \in {"update_transaction", "delete_transaction"}
    THEN records' = [records EXCEPT ![r.tgt] = r.orig] /\ users' = users
    ELSE IF r.kind = "create_user"
    THEN users' = SubSeq(users, 1, Len(users) - 1) /\ records' = records
    ELSE users' = [users EXCEPT ![r.tgt] = r.orig] /\ records' = records

\* db.rollback(): the session's uncommitted changes are dropped; what was
\* committed stays
rollback(s) == UNCHANGED <<users, records>>

\* the handler in slot s raised: the response is 500
\* raise HTTPException with session changes that were flushed by a query
\* before the raise written through to the store
HTTPException_flushed(s, status, detail) ==
    /\ users' = [users EXCEPT ![slots[s].tgt] = slots[s].ent]
    /\ UNCHANGED records
    /\ Finish(s, status, detail, slots[s], NoToken, NoToken)

\* raise HTTPException in a handler that has assigned to an object of its
\* session and not yet called db.commit(): the request ends with the status
\* and the detail, and the assignments go with the session
HTTPException(s, status, detail) ==
    /\ UNCHANGED <<users, records>>
    /\ Finish(s, status, detail, slots[s], NoToken, NoToken)

Raise(s) ==
    /\ IF slots[s].kind \in UsersRouterKinds \cup LedgerKinds
       THEN rollback(s)
       ELSE UNCHANGED <<users, records>>
    /\ Finish(s, 500, ErrorDetail(slots[s].kind), slots[s], NoToken, NoToken)

\* ------------------------------------------------------------------------
\* The audit insert: AuditService.log_action and log_audit add the record
\* and commit; then the handler builds its response.  A failed commit
\* raises.
\* ------------------------------------------------------------------------
\* app/core/database.py is not among the sources.  get_db gives each request
\* a session of its own; its objects stay loaded after a commit
\* (expire_on_commit=False), which every handler that reads them after the
\* audit commit relies on: with expired objects the read would raise.
expire_on_commit == FALSE

ReadsAfterAudit ==
    {"login", "update_profile", "create_user", "update_user",
     "create_transaction", "update_transaction"}

\* an audit insert that replaces the log by the new record
InsertAudit_replacing(s) ==
    LET r == slots[s]
        done == [r EXCEPT !.audited = Append(@, 1)]
    IN /\ audit' = <<r.pend>>
       /\ Finish(s, 200, "ok", done,
                 IF r.kind = "login" THEN r.a.access ELSE NoToken,
                 IF r.kind = "login" THEN r.a.refresh ELSE NoToken)
       /\ UNCHANGED <<now, ticks, users, records, held, failures>>

InsertAudit(s) ==
    LET r == slots[s]
        done == [r EXCEPT !.audited = Append(@, Len(audit) + 1)]
    IN
    \/ /\ audit' = Append(audit, r.pend)
       /\ IF expire_on_commit /\ r.kind \in ReadsAfterAudit
          THEN Finish(s, 500, ErrorDetail(r.kind), done, NoToken, NoToken)
          ELSE Finish(s, 200, "ok", done,
                      IF r.kind = "login" THEN r.a.access ELSE NoToken,
                      IF r.kind = "login" THEN r.a.refresh ELSE NoToken)
       /\ UNCHANGED <<now, ticks, users, records, held, failures>>
    \/ /\ failures < MaxFailures
       /\ failures' = failures + 1
       /\ Raise(s)
       /\ UNCHANGED <<now, ticks, audit, held>>

log_action(s) ==
    /\ At(s, "audit")
    /\ slots[s].kind \in AuthRouterKinds \cup UsersRouterKinds
    /\ InsertAudit(s)

log_audit(s) ==
    /\ At(s, "audit")
    /\ slots[s].kind \in LedgerKinds
    /\ InsertAudit(s)

\* ------------------------------------------------------------------------
\* app/routers/auth.py
\* ------------------------------------------------------------------------
LoginNames == {"alice", "bob", "carol", "nobody"}

\* select(User).where(User.username == username)
UserByUsername(U, username) == {i \in DOMAIN U : U[i].username = username}

\* a login test that tells an inactive account from a wrong password
authenticate_telling(U, username, password) ==
    LET ids == UserByUsername(U, username) IN
    IF NoRow(ids) THEN Err(401, "Incorrect username or password")
    ELSE IF ~U[TheRow(ids)].is_active THEN Err(401, "Inactive user")
    ELSE IF ~verify_password(password, U[TheRow(ids)].password_hash)
    THEN Err(401, "Incorrect username or password")
    ELSE Ok(TheRow(ids))

\* "Verify user and password": not user, or not user.is_active, or not
\* verify_password(...)
authenticate(U, username, password) ==
    LET ids == UserByUsername(U, username) IN
    IF \/ NoRow(ids)
       \/ ~U[TheRow(ids)].is_active
       \/ ~verify_password(password, U[TheRow(ids)].password_hash)
    THEN Err(401, "Incorrect username or password")
    ELSE Ok(TheRow(ids))

\* a login that returns its tokens without writing the audit record
login_unaudited(s) ==
    /\ Ready(s)
    /\ \E username \in LoginNames, password \in Passwords :
         LET res == authenticate(users, username, password) IN
         IF res.status # 200
         THEN Reject(s, "login", NoToken,
                     [username |-> username, password |-> password],
                     res.status, res.detail)
         ELSE LET id == res.uid
                  data == [sub |-> Str(id), username |-> users[id].username]
              IN Finish(s, 200, "ok",
                        [Idle EXCEPT !.kind = "login", !.at = now, !.actor = id,
                                     !.cu = users[id],
                                     !.a = [username |-> username, password |-> password]],
                        create_access_token(data, now), create_refresh_token(data, now))
    /\ UNCHANGED <<now, ticks, users, records, audit, held, failures>>

login(s) ==
    /\ Ready(s)
    /\ \E username \in LoginNames, password \in Passwords :
         LET res == authenticate(users, username, password) IN
         IF res.status # 200
         THEN Reject(s, "login", NoToken,
                     [username |-> username, password |-> password],
                     res.status, res.detail)
         ELSE LET id == res.uid
                  data == [sub |-> Str(id), username |-> users[id].username]
              IN /\ WriteBudget
                 /\ slots' = [slots EXCEPT ![s] =
                       [Idle EXCEPT !.pc = "audit", !.kind = "login", !.at = now,
                          !.actor = id, !.cu = users[id],
                          !.a = [username |-> username, password |-> password,
                                 access |-> create_access_token(data, now),
                                 refresh |-> create_refresh_token(data, now)],
                          !.pend = AuditLog(id, "LOGIN", "users", id,
                                            NoValues, NoValues)]]
                 /\ resp' = resp
    /\ UNCHANGED <<now, ticks, users, records, audit, held, failures>>

\* a refresh that does not look the subject up
refresh_token_unchecked(s) ==
    /\ Ready(s)
    /\ \E token \in Presented :
         LET payload == verify_token(token, "refresh", now) IN
         IF payload = NoPayload
         THEN Reject(s, "refresh", token, NoValues, 401, "Invalid or expired refresh token")
         ELSE IF payload.sub = None
         THEN Reject(s, "refresh", token, NoValues, 401, "Invalid token payload")
         ELSE LET data == [sub |-> payload.sub, username |-> payload.username]
              IN Finish(s, 200, "ok",
                        [Idle EXCEPT !.kind = "refresh", !.at = now, !.tok = token],
                        create_access_token(data, now),
                        create_refresh_token(data, now))
    /\ UNCHANGED <<now, ticks, users, records, audit, held, failures>>

refresh_token(s) ==
    /\ Ready(s)
    /\ \E token \in Presented :
         LET payload == verify_token(token, "refresh", now) IN
         IF payload = NoPayload
         THEN Reject(s, "refresh", token, NoValues, 401, "Invalid or expired refresh token")
         ELSE IF payload.sub = None
         THEN Reject(s, "refresh", token, NoValues, 401, "Invalid token payload")
         ELSE IF ~IsIntString(payload.sub)
         THEN Reject(s, "refresh", token, NoValues, 500, "Internal server error")
         ELSE LET ids == UserById(users, IntOf(payload.sub)) IN
              IF NoRow(ids) \/ ~users[TheRow(ids)].is_active
              THEN Reject(s, "refresh", token, NoValues, 401, "User not found or inactive")
              ELSE LET id == TheRow(ids)
                       data == [sub |-> Str(id), username |-> users[id].username]
                   IN Finish(s, 200, "ok",
                             [Idle EXCEPT !.kind = "refresh", !.at = now,
                                !.tok = token, !.actor = id, !.cu = users[id]],
                             create_access_token(data, now),
                             create_refresh_token(data, now))
    /\ UNCHANGED <<now, ticks, users, records, audit, held, failures>>

\* a request enters its handler as the authenticated user uid
Entered(kind, token, uid, pc, a) ==
    [Idle EXCEPT !.pc = pc, !.kind = kind, !.at = now, !.tok = token,
                 !.actor = uid, !.cu = users[uid], !.a = a]

get_current_user_info(s) ==
    /\ Ready(s)
    /\ \E token \in Presented :
         LET res == get_current_user(token, users, now) IN
         IF res.status # 200 THEN Reject(s, "me", token, NoValues, res.status, res.detail)
         ELSE Finish(s, 200, "ok", Entered("me", token, res.uid, "idle", NoValues),
                     NoToken, NoToken)
    /\ UNCHANGED <<now, ticks, users, records, audit, held, failures>>

logout(s) ==
    /\ Ready(s)
    /\ \E token \in Presented :
         LET res == get_current_user(token, users, now) IN
         IF res.status # 200 THEN Reject(s, "logout", token, NoValues, res.status, res.detail)
         ELSE /\ WriteBudget
              /\ slots' = [slots EXCEPT ![s] =
                    [Entered("logout", token, res.uid, "audit", NoValues)
                       EXCEPT !.pend = AuditLog(res.uid, "LOGOUT", "users", res.uid,
                                                NoValues, NoValues)]]
              /\ resp' = resp
    /\ UNCHANGED <<now, ticks, users, records, audit, held, failures>>

change_password(s) ==
    /\ Ready(s)
    /\ \E token \in Presented :
         LET res == get_current_user(token, users, now) IN
         IF res.status # 200 THEN Reject(s, "change_password", token, NoValues, res.status, res.detail)
         ELSE \E current_password \in Passwords,
                 new_password \in Passwords \cup RefusedPasswords,
                 salt \in Salts \ {users[res.uid].password_hash.salt} :
              LET password_data == [current_password |-> current_password,
                                    new_password |-> new_password]
                  v == validate_new_password(new_password)
              IN
              IF v.status # 200
              THEN Finish(s, v.status, v.detail,
                          Entered("change_password", token, res.uid, "idle", password_data),
                          NoToken, NoToken)
              ELSE IF ~verify_password(current_password, users[res.uid].password_hash)
              THEN Finish(s, 400, "Current password is incorrect",
                          Entered("change_password", token, res.uid, "idle", password_data),
                          NoToken, NoToken)
              ELSE
              /\ WriteBudget
              /\ slots' = [slots EXCEPT ![s] =
                    [Entered("change_password", token, res.uid, "commit", password_data)
                       EXCEPT !.tgt = res.uid, !.orig = users[res.uid],
                              !.ent = [users[res.uid] EXCEPT !.password_hash =
                                          get_password_hash(new_password, salt)]]]
              /\ resp' = resp
    /\ UNCHANGED <<now, ticks, users, records, audit, held, failures>>

\* UserUpdate bodies sent to /profile
ProfileInputs ==
    {[username |-> "dave", email |-> None, full_name |-> None, role |-> None, is_active |-> None],
     [username |-> None, email |-> "d@x", full_name |-> None, role |-> None, is_active |-> None],
     [username |-> "dave", email |-> "a@x", full_name |-> None, role |-> None, is_active |-> None],
     [username |-> "alice", email |-> None, full_name |-> None, role |-> None, is_active |-> None],
     [username |-> None, email |-> None, full_name |-> "Z", role |-> "admin", is_active |-> "False"]}

\* a profile snapshot that takes the hash along
ProfileValues_with_hash(u) ==
    [username |-> u.username, email |-> u.email, full_name |-> u.full_name,
     password_hash |-> u.password_hash]

ProfileValues(u) ==
    [username |-> u.username, email |-> u.email, full_name |-> u.full_name]

\* select(User).where(User.username == username, User.id != id)
OtherByUsername(U, username, id) == {i \in DOMAIN U : U[i].username = username /\ i # id}
OtherByEmail(U, email, id) == {i \in DOMAIN U : U[i].email = email /\ i # id}

\* a users table without unique indexes
UniqueViolation_never(U, row, id) == FALSE

\* the unique indexes of the users table (models.py: unique=True), checked
\* when a row is written
UniqueViolation(U, row, id) ==
    \/ OtherByUsername(U, row.username, id) # {}
    \/ OtherByEmail(U, row.email, id) # {}

\* an update_profile that also assigns the role and the active flag of the
\* request body
ProfileNext_with_role(r, pc) ==
    IF pc = "chk_username" /\ r.a.email # None THEN [r EXCEPT !.pc = "chk_email"]
    ELSE [r EXCEPT !.pc = "commit",
                   !.ent = [r.ent EXCEPT
                              !.full_name = IF r.a.full_name # None THEN r.a.full_name ELSE @,
                              !.role = IF r.a.role # None THEN r.a.role ELSE @,
                              !.is_active = IF r.a.is_active # None
                                            THEN r.a.is_active = "True" ELSE @]]

\* the steps of update_profile after a check passed: the next select, or
\* the commit; full_name is assigned on the way
ProfileNext(r, pc) ==
    IF pc = "chk_username" /\ r.a.email # None THEN [r EXCEPT !.pc = "chk_email"]
    ELSE [r EXCEPT !.pc = "commit",
                   !.ent = IF r.a.full_name # None
                           THEN [r.ent EXCEPT !.full_name = r.a.full_name]
                           ELSE r.ent]

update_profile(s) ==
    \/ /\ Ready(s)
       /\ \E token \in Presented :
            LET res == get_current_user(token, users, now) IN
            IF res.status # 200 THEN Reject(s, "update_profile", token, NoValues, res.status, res.detail)
            ELSE \E profile_data \in ProfileInputs :
                 LET r == [Entered("update_profile", token, res.uid, "chk_username",
                                   [username |-> profile_data.username,
                                    email |-> profile_data.email,
                                    full_name |-> profile_data.full_name,
                                    role |-> profile_data.role,
                                    is_active |-> profile_data.is_active,
                                    old |-> ProfileValues(users[res.uid])])
                             EXCEPT !.tgt = res.uid, !.orig = users[res.uid],
                                    !.ent = users[res.uid]]
                 IN /\ WriteBudget
                    /\ slots' = [slots EXCEPT ![s] =
                          IF profile_data.username # None THEN r
                          ELSE ProfileNext(r, "chk_username")]
                    /\ resp' = resp
       /\ UNCHANGED <<now, ticks, users, records, audit, held, failures>>
    \/ /\ At(s, "chk_username")
       /\ slots[s].kind = "update_profile"
       /\ LET r == slots[s] IN
          IF OtherByUsername(users, r.a.username, r.actor) # {}
          THEN HTTPException(s, 400, "Username already exists")
          ELSE /\ slots' = [slots EXCEPT ![s] =
                     ProfileNext([r EXCEPT !.ent.username = r.a.username],
                                 "chk_username")]
               /\ resp' = resp
               /\ UNCHANGED <<users, records>>
       /\ UNCHANGED <<now, ticks, audit, held, failures>>
    \/ /\ At(s, "chk_email")
       /\ slots[s].kind = "update_profile"
       /\ LET r == slots[s] IN
          \* the select flushes the pending username first
          IF OtherByUsername(users, r.ent.username, r.actor) # {}
          THEN /\ Finish(s, 500, ErrorDetail(r.kind), r, NoToken, NoToken)
               /\ UNCHANGED <<users, records>>
          ELSE IF OtherByEmail(users, r.a.email, r.actor) # {}
          THEN HTTPException(s, 400, "Email already exists")
          ELSE /\ slots' = [slots EXCEPT ![s] =
                     ProfileNext([r EXCEPT !.ent.email = r.a.email], "chk_email")]
               /\ resp' = resp
               /\ UNCHANGED <<users, records>>
       /\ UNCHANGED <<now, ticks, audit, held, failures>>

\* ------------------------------------------------------------------------
\* app/routers/users.py
\* ------------------------------------------------------------------------
\* role = Column(String(20)): a role read from the store is a str, and only
\* a UserRole member has .value
LoadedRoleType == "str"
HasValue(pytype) == pytype = "UserRole"

\* the fields of schemas.UserUpdate; user_data.password is none of them
UserUpdateFields == {"username", "email", "full_name", "role", "is_active"}

UserValues(u) ==
    [username |-> u.username, email |-> u.email, full_name |-> u.full_name,
     role |-> u.role, is_active |-> u.is_active]

\* select(User).where((User.username == username) | (User.email == email))
UserByUsernameOrEmail(U, username, email, id) ==
    {i \in DOMAIN U : i # id /\ (U[i].username = username \/ U[i].email = email)}

\* the session returns the object it already holds for a row it loaded
Loaded(r, U, id) == IF id = r.actor THEN r.cu ELSE U[id]

CreateInputs ==
    {[username |-> u, email |-> e, full_name |-> "D", password |-> Password1,
      role |-> ra[1], is_active |-> ra[2]] :
        u \in {"alice", "dave"}, e \in {"b@x", "d@x"},
        ra \in {<<"admin", TRUE>>, <<"viewer", FALSE>>}}

RefusedCreateInputs ==
    {[username |-> "dave", email |-> "d@x", full_name |-> "D", password |-> p,
      role |-> "viewer", is_active |-> TRUE] : p \in RefusedPasswords}

UpdateInputs ==
    {[username |-> "dave", email |-> None, full_name |-> None, role |-> None, is_active |-> None],
     [username |-> "alice", email |-> "b@x", full_name |-> None, role |-> None, is_active |-> None],
     [username |-> None, email |-> "a@x", full_name |-> None, role |-> None, is_active |-> None],
     [username |-> None, email |-> None, full_name |-> "Z", role |-> "viewer", is_active |-> None],
     [username |-> None, email |-> None, full_name |-> None, role |-> None, is_active |-> "False"]}

\* a select that leaves a record of the read in the audit log
execute_select_logged(s) ==
    /\ audit' = Append(audit, AuditLog(slots[s].actor, "LOGIN", "users", NoId,
                                       NoValues, NoValues))
    /\ UNCHANGED <<users, records>>

\* await db.execute(select(...)) in a handler that only reads
execute_select(s) == UNCHANGED <<users, records, audit>>

get_users(s) ==
    \/ /\ Ready(s)
       /\ \E token \in Presented :
            LET res == get_admin_user(token, users, now) IN
            IF res.status # 200 THEN Reject(s, "get_users", token, NoValues, res.status, res.detail)
            ELSE /\ slots' = [slots EXCEPT ![s] =
                       Entered("get_users", token, res.uid, "query", NoValues)]
                 /\ resp' = resp
       /\ UNCHANGED <<now, ticks, users, records, audit, held, failures>>
    \/ /\ At(s, "query")
       /\ slots[s].kind = "get_users"
       /\ Finish(s, 200, "ok", slots[s], NoToken, NoToken)
       /\ execute_select(s)
       /\ UNCHANGED <<now, ticks, held, failures>>

\* GET /api/users/{user_id}
get_user(s) ==
    \/ /\ Ready(s)
       /\ \E token \in Presented :
            LET res == get_admin_user(token, users, now) IN
            IF res.status # 200 THEN Reject(s, "get_user", token, NoValues, res.status, res.detail)
            ELSE \E user_id \in 1..MaxUsers :
                 /\ slots' = [slots EXCEPT ![s] =
                       [Entered("get_user", token, res.uid, "query", NoValues)
                          EXCEPT !.tgt = user_id]]
                 /\ resp' = resp
       /\ UNCHANGED <<now, ticks, users, records, audit, held, failures>>
    \/ /\ At(s, "query")
       /\ slots[s].kind = "get_user"
       /\ IF NoRow(UserById(users, slots[s].tgt))
          THEN Finish(s, 404, "User not found", slots[s], NoToken, NoToken)
          ELSE Finish(s, 200, "ok", slots[s], NoToken, NoToken)
       /\ execute_select(s)
       /\ UNCHANGED <<now, ticks, held, failures>>

create_user(s) ==
    \/ /\ Ready(s)
       /\ \E token \in Presented :
            LET res == get_admin_user(token, users, now) IN
            IF res.status # 200 THEN Reject(s, "create_user", token, NoValues, res.status, res.detail)
            ELSE \E user_data \in CreateInputs \cup RefusedCreateInputs :
                 LET v == validate_password(user_data.password) IN
                 IF v.status # 200
                 THEN Finish(s, v.status, v.detail,
                             Entered("create_user", token, res.uid, "idle", user_data),
                             NoToken, NoToken)
                 ELSE
                 /\ WriteBudget
                 /\ UserBudget
                 /\ slots' = [slots EXCEPT ![s] =
                       Entered("create_user", token, res.uid, "dup_check", user_data)]
                 /\ resp' = resp
       /\ UNCHANGED <<now, ticks, users, records, audit, held, failures>>
    \/ /\ At(s, "dup_check")
       /\ slots[s].kind = "create_user"
       /\ LET r == slots[s]
              ids == UserByUsernameOrEmail(users, r.a.username, r.a.email, NoId)
          IN IF NoRow(ids)
             THEN /\ \E salt \in Salts :
                       slots' = [slots EXCEPT ![s] =
                          [r EXCEPT !.pc = "commit",
                             !.ent = User(r.a.username, r.a.email, r.a.full_name,
                                          get_password_hash(r.a.password, salt),
                                          r.a.role, r.a.is_active)]]
                  /\ resp' = resp
                  /\ UNCHANGED <<users, records>>
             ELSE IF ~OneRow(ids) THEN Raise(s)
             ELSE /\ Finish(s, 400,
                            IF users[TheRow(ids)].username = r.a.username
                            THEN "Username already exists" ELSE "Email already exists",
                            r, NoToken, NoToken)
                  /\ UNCHANGED <<users, records>>
       /\ UNCHANGED <<now, ticks, audit, held, failures>>

\* update_user from "Store old values for audit" to the commit
UpdateUserAssign(r) ==
    LET d == r.a.user_data
        u0 == r.orig
        u1 == [u0 EXCEPT !.username = IF d.username # None THEN d.username ELSE @,
                         !.email = IF d.email # None THEN d.email ELSE @,
                         !.full_name = IF d.full_name # None THEN d.full_name ELSE @,
                         !.role = IF d.role # None THEN d.role ELSE @,
                         !.is_active = IF d.is_active # None THEN d.is_active = "True" ELSE @]
    IN [r EXCEPT !.pc = "commit", !.ent = u1,
                 !.a = [user_data |-> d, old |-> UserValues(u0)]]

UpdateUserProceed(s, r) ==
    IF HasValue(LoadedRoleType) /\ "password" \in UserUpdateFields
    THEN /\ slots' = [slots EXCEPT ![s] = UpdateUserAssign(r)]
         /\ resp' = resp
         /\ UNCHANGED <<users, records>>
    ELSE Raise(s)

update_user(s) ==
    \/ /\ Ready(s)
       /\ \E token \in Presented :
            LET res == get_admin_user(token, users, now) IN
            IF res.status # 200 THEN Reject(s, "update_user", token, NoValues, res.status, res.detail)
            ELSE \E user_id \in 1..MaxUsers, user_data \in UpdateInputs :
                 /\ WriteBudget
                 /\ slots' = [slots EXCEPT ![s] =
                       [Entered("update_user", token, res.uid, "load", [user_data |-> user_data])
                          EXCEPT !.tgt = user_id]]
                 /\ resp' = resp
       /\ UNCHANGED <<now, ticks, users, records, audit, held, failures>>
    \/ /\ At(s, "load")
       /\ slots[s].kind = "update_user"
       /\ LET r == slots[s] IN
          IF NoRow(UserById(users, r.tgt))
          THEN /\ Finish(s, 404, "User not found", r, NoToken, NoToken)
               /\ UNCHANGED <<users, records>>
          ELSE LET r1 == [r EXCEPT !.orig = Loaded(r, users, r.tgt)] IN
               IF r.a.user_data.username # None \/ r.a.user_data.email # None
               THEN /\ slots' = [slots EXCEPT ![s] = [r1 EXCEPT !.pc = "dup_check"]]
                    /\ resp' = resp
                    /\ UNCHANGED <<users, records>>
               ELSE UpdateUserProceed(s, r1)
       /\ UNCHANGED <<now, ticks, audit, held, failures>>
    \/ /\ At(s, "dup_check")
       /\ slots[s].kind = "update_user"
       /\ LET r == slots[s]
              d == r.a.user_data
              ids == UserByUsernameOrEmail(users, d.username, d.email, r.tgt)
          IN IF NoRow(ids) THEN UpdateUserProceed(s, r)
             ELSE IF ~OneRow(ids) THEN Raise(s)
             ELSE /\ Finish(s, 400,
                            IF users[TheRow(ids)].username = d.username
                            THEN "Username already exists" ELSE "Email already exists",
                            r, NoToken, NoToken)
                  /\ UNCHANGED <<users, records>>
       /\ UNCHANGED <<now, ticks, audit, held, failures>>

\* a self-deletion test that never fires
SelfDeletion_never(user_id, current_user_id) == FALSE

\* if user_id == current_user.id
SelfDeletion(user_id, current_user_id) == user_id = current_user_id

delete_user(s) ==
    \/ /\ Ready(s)
       /\ \E token \in Presented :
            LET res == get_admin_user(token, users, now) IN
            IF res.status # 200 THEN Reject(s, "delete_user", token, NoValues, res.status, res.detail)
            ELSE \E user_id \in 1..MaxUsers :
                 IF SelfDeletion(user_id, res.uid)
                 THEN Finish(s, 400, "Cannot delete your own account",
                             [Entered("delete_user", token, res.uid, "idle", NoValues)
                                EXCEPT !.tgt = user_id], NoToken, NoToken)
                 ELSE
                 /\ WriteBudget
                 /\ slots' = [slots EXCEPT ![s] =
                       [Entered("delete_user", token, res.uid, "load", NoValues)
                          EXCEPT !.tgt = user_id]]
                 /\ resp' = resp
       /\ UNCHANGED <<now, ticks, users, records, audit, held, failures>>
    \/ /\ At(s, "load")
       /\ slots[s].kind = "delete_user"
       /\ LET r == slots[s] IN
          IF NoRow(UserById(users, r.tgt))
          THEN /\ Finish(s, 404, "User not found", r, NoToken, NoToken)
               /\ UNCHANGED <<users, records>>
          ELSE IF HasValue(LoadedRoleType)
          THEN /\ slots' = [slots EXCEPT ![s] =
                     [r EXCEPT !.pc = "commit", !.orig = users[r.tgt],
                               !.ent = [users[r.tgt] EXCEPT !.is_active = FALSE],
                               !.a = [old |-> UserValues(users[r.tgt])]]]
               /\ resp' = resp
               /\ UNCHANGED <<users, records>>
          ELSE Raise(s)
       /\ UNCHANGED <<now, ticks, audit, held, failures>>

\* ------------------------------------------------------------------------
\* app/routers/transactions.py
\* ------------------------------------------------------------------------
NoAmount == 0

\* FinancialRecordCreate bodies; an amount may carry more than two places
TransactionInputs ==
    {[amount |-> 20000, description |-> "books", transaction_type |-> "debit"],
     [amount |-> 10005, description |-> "fees", transaction_type |-> "credit"]}

\* FinancialRecordUpdate bodies
TransactionUpdates ==
    {[amount |-> 20000, description |-> None, transaction_type |-> None],
     [amount |-> NoAmount, description |-> "books", transaction_type |-> "debit"]}

RecordValues(row) ==
    [amount |-> Float(row.amount), description |-> row.description,
     transaction_type |-> row.transaction_type]

\* select(FinancialRecord).where(id == record_id, is_deleted == False)
RecordById(R, record_id) ==
    {i \in DOMAIN R : i = record_id /\ ~R[i].is_deleted}

get_transactions(s) ==
    \/ /\ Ready(s)
       /\ \E token \in Presented :
            LET res == security_get_current_user(token, users, now) IN
            IF res.status # 200 THEN Reject(s, "get_transactions", token, NoValues, res.status, res.detail)
            ELSE /\ slots' = [slots EXCEPT ![s] =
                       Entered("get_transactions", token, res.uid, "query", NoValues)]
                 /\ resp' = resp
       /\ UNCHANGED <<now, ticks, users, records, audit, held, failures>>
    \/ /\ At(s, "query")
       /\ slots[s].kind = "get_transactions"
       /\ Finish(s, 200, "ok", slots[s], NoToken, NoToken)
       /\ execute_select(s)
       /\ UNCHANGED <<now, ticks, held, failures>>

get_balance(s) ==
    \/ /\ Ready(s)
       /\ \E token \in Presented :
            LET res == security_get_current_user(token, users, now) IN
            IF res.status # 200 THEN Reject(s, "get_balance", token, NoValues, res.status, res.detail)
            ELSE /\ slots' = [slots EXCEPT ![s] =
                       Entered("get_balance", token, res.uid, "query", NoValues)]
                 /\ resp' = resp
       /\ UNCHANGED <<now, ticks, users, records, audit, held, failures>>
    \/ /\ At(s, "query")
       /\ slots[s].kind = "get_balance"
       /\ Finish(s, 200, "ok", slots[s], NoToken, NoToken)
       /\ execute_select(s)
       /\ UNCHANGED <<now, ticks, held, failures>>

create_transaction(s) ==
    /\ Ready(s)
    /\ \E token \in Presented :
         LET res == require_admin_role(token, users, now) IN
         IF res.status # 200 THEN Reject(s, "create_transaction", token, NoValues, res.status, res.detail)
         ELSE \E transaction \in TransactionInputs :
              /\ WriteBudget
              /\ RecordBudget
              /\ slots' = [slots EXCEPT ![s] =
                    [Entered("create_transaction", token, res.uid, "commit", transaction)
                       EXCEPT !.ent = FinancialRecord(transaction.amount,
                                         transaction.description,
                                         transaction.transaction_type, res.uid)]]
              /\ resp' = resp
    /\ UNCHANGED <<now, ticks, users, records, audit, held, failures>>

update_transaction(s) ==
    \/ /\ Ready(s)
       /\ \E token \in Presented :
            LET res == require_admin_role(token, users, now) IN
            IF res.status # 200 THEN Reject(s, "update_transaction", token, NoValues, res.status, res.detail)
            ELSE \E record_id \in 1..MaxRecords, transaction \in TransactionUpdates :
                 /\ WriteBudget
                 /\ slots' = [slots EXCEPT ![s] =
                       [Entered("update_transaction", token, res.uid, "load", transaction)
                          EXCEPT !.tgt = record_id]]
                 /\ resp' = resp
       /\ UNCHANGED <<now, ticks, users, records, audit, held, failures>>
    \/ /\ At(s, "load")
       /\ slots[s].kind = "update_transaction"
       /\ LET r == slots[s]
              d == r.a
          IN IF NoRow(RecordById(records, r.tgt))
             THEN Finish(s, 404, "Transaction not found", r, NoToken, NoToken)
             ELSE /\ slots' = [slots EXCEPT ![s] =
                        [r EXCEPT !.pc = "commit", !.orig = records[r.tgt],
                           !.ent = [records[r.tgt] EXCEPT
                              !.amount = IF d.amount # NoAmount THEN d.amount ELSE @,
                              !.description =
                                 IF d.description # None THEN d.description ELSE @,
                              !.transaction_type =
                                 IF d.transaction_type # None THEN d.transaction_type
                                 ELSE @],
                           !.a = [old |-> RecordValues(records[r.tgt])]]]
                  /\ resp' = resp
       /\ UNCHANGED <<now, ticks, users, records, audit, held, failures>>

delete_transaction(s) ==
    \/ /\ Ready(s)
       /\ \E token \in Presented :
            LET res == require_admin_role(token, users, now) IN
            IF res.status # 200 THEN Reject(s, "delete_transaction", token, NoValues, res.status, res.detail)
            ELSE \E record_id \in 1..MaxRecords :
                 /\ WriteBudget
                 /\ slots' = [slots EXCEPT ![s] =
                       [Entered("delete_transaction", token, res.uid, "load", NoValues)
                          EXCEPT !.tgt = record_id]]
                 /\ resp' = resp
       /\ UNCHANGED <<now, ticks, users, records, audit, held, failures>>
    \/ /\ At(s, "load")
       /\ slots[s].kind = "delete_transaction"
       /\ LET r == slots[s] IN
          IF NoRow(RecordById(records, r.tgt))
          THEN Finish(s, 404, "Transaction not found", r, NoToken, NoToken)
          ELSE /\ slots' = [slots EXCEPT ![s] =
                     [r EXCEPT !.pc = "commit", !.orig = records[r.tgt],
                        !.ent = [records[r.tgt] EXCEPT !.is_deleted = TRUE],
                        !.a = [old |-> [amount |-> Float(records[r.tgt].amount),
                                  description |-> records[r.tgt].description,
                                  transaction_type |-> records[r.tgt].transaction_type,
                                  is_deleted |-> FALSE]]]]
               /\ resp' = resp
       /\ UNCHANGED <<now, ticks, users, records, audit, held, failures>>

\* ------------------------------------------------------------------------
\* app/routers/audit.py and app/routers/public.py: reads
\* ------------------------------------------------------------------------
get_audit_logs(s) ==
    \/ /\ Ready(s)
       /\ \E token \in Presented :
            LET res == get_admin_user(token, users, now) IN
            IF res.status # 200 THEN Reject(s, "get_audit_logs", token, NoValues, res.status, res.detail)
            ELSE /\ slots' = [slots EXCEPT ![s] =
                       Entered("get_audit_logs", token, res.uid, "query", NoValues)]
                 /\ resp' = resp
       /\ UNCHANGED <<now, ticks, users, records, audit, held, failures>>
    \/ /\ At(s, "query")
       /\ slots[s].kind = "get_audit_logs"
       /\ Finish(s, 200, "ok", slots[s], NoToken, NoToken)
       /\ execute_select(s)
       /\ UNCHANGED <<now, ticks, held, failures>>

get_audit_log(s) ==
    \/ /\ Ready(s)
       /\ \E token \in Presented :
            LET res == get_admin_user(token, users, now) IN
            IF res.status # 200 THEN Reject(s, "get_audit_log", token, NoValues, res.status, res.detail)
            ELSE \E log_id \in 1..MaxWrites :
                 /\ slots' = [slots EXCEPT ![s] =
                       [Entered("get_audit_log", token, res.uid, "query", NoValues)
                          EXCEPT !.tgt = log_id]]
                 /\ resp' = resp
       /\ UNCHANGED <<now, ticks, users, records, audit, held, failures>>
    \/ /\ At(s, "query")
       /\ slots[s].kind = "get_audit_log"
       /\ IF slots[s].tgt \in DOMAIN audit
          THEN Finish(s, 200, "ok", slots[s], NoToken, NoToken)
          ELSE Finish(s, 404, "Audit log not found", slots[s], NoToken, NoToken)
       /\ execute_select(s)
       /\ UNCHANGED <<now, ticks, held, failures>>

get_public_transactions(s) ==
    /\ Ready(s)
    /\ Finish(s, 200, "ok", [Idle EXCEPT !.kind = "get_public_transactions"],
              NoToken, NoToken)
    /\ execute_select(s)
    /\ UNCHANGED <<now, ticks, held, failures>>

\* GET /api/public/balance: two sums over the ledger, no authentication
get_public_balance(s) ==
    /\ Ready(s)
    /\ Finish(s, 200, "ok", [Idle EXCEPT !.kind = "get_public_balance"],
              NoToken, NoToken)
    /\ execute_select(s)
    /\ UNCHANGED <<now, ticks, held, failures>>

\* ------------------------------------------------------------------------
\* db.commit() of the handler's own change, and db.refresh() with the code
\* that follows it
\* ------------------------------------------------------------------------
UserKinds == {"change_password", "update_profile", "create_user", "update_user", "delete_user"}

\* the UPDATE writes the attributes the handler changed and no others
DirtyMerge(row, loaded, modified) ==
    [f \in DOMAIN row |-> IF modified[f] # loaded[f] THEN modified[f] ELSE row[f]]

\* the row the commit of r leaves in its table
CommittedRow(r) ==
    CASE r.kind = "create_user" -> r.ent
      [] r.kind = "create_transaction" -> [r.ent EXCEPT !.amount = Quantize(@)]
      [] r.kind \in LedgerKinds ->
           [DirtyMerge(records[r.tgt], r.orig, r.ent) EXCEPT !.amount = Quantize(@)]
      [] OTHER -> DirtyMerge(users[r.tgt], r.orig, r.ent)

\* what the handler does between its commit and the next round trip
AfterCommit(r, tgt, row) ==
    LET r1 == [r EXCEPT !.committed = TRUE, !.tgt = tgt, !.snap = row] IN
    CASE r.kind = "delete_user" ->
           [r1 EXCEPT !.pc = "audit",
              !.pend = AuditLog(r.actor, "DELETE", "users", tgt, r.a.old,
                                [is_active |-> FALSE])]
      [] r.kind = "delete_transaction" ->
           [r1 EXCEPT !.pc = "audit",
              !.pend = AuditLog(r.actor, "DELETE", "financial_records", tgt, r.a.old,
                                [is_deleted |-> TRUE])]
      [] OTHER -> [r1 EXCEPT !.pc = "refresh"]

\* the handler goes on after its commit; the delete handlers read the id of
\* the object they committed without refreshing it
Committed(s, r1) ==
    IF expire_on_commit /\ r1.pc = "audit"
    THEN Finish(s, 500, ErrorDetail(r1.kind), r1, NoToken, NoToken)
    ELSE /\ slots' = [slots EXCEPT ![s] = r1]
         /\ resp' = resp

commit(s) ==
    /\ At(s, "commit")
    /\ LET r == slots[s]
           row == CommittedRow(r)
       IN \/ /\ r.kind \in UserKinds
             /\ IF UniqueViolation(users, row, IF r.kind = "create_user" THEN NoId ELSE r.tgt)
                THEN /\ Raise(s)
                ELSE /\ users' = IF r.kind = "create_user" THEN Append(users, row)
                                 ELSE [users EXCEPT ![r.tgt] = row]
                     /\ Committed(s, AfterCommit(r, IF r.kind = "create_user"
                                                    THEN Len(users) + 1 ELSE r.tgt, row))
                     /\ UNCHANGED records
             /\ UNCHANGED failures
          \/ /\ r.kind \in LedgerKinds
             /\ records' = IF r.kind = "create_transaction" THEN Append(records, row)
                           ELSE [records EXCEPT ![r.tgt] = row]
             /\ Committed(s, AfterCommit(r, IF r.kind = "create_transaction"
                                            THEN Len(records) + 1 ELSE r.tgt, row))
             /\ UNCHANGED <<users, failures>>
          \/ /\ failures < MaxFailures
             /\ failures' = failures + 1
             /\ Raise(s)
    /\ UNCHANGED <<now, ticks, audit, held>>

\* audit records attributed to the target instead of the caller
AuditOf_by_target(r, row) ==
    AuditLog(r.tgt, "UPDATE", IF r.kind \in UserKinds THEN "users" ELSE "financial_records",
             r.tgt, NoValues, NoValues)

\* the audit record the handler builds from the refreshed row
AuditOf(r, row) ==
    CASE r.kind = "change_password" ->
           AuditLog(r.actor, "UPDATE", "users", r.actor, NoValues,
                    [password_changed |-> TRUE])
      [] r.kind = "update_profile" ->
           AuditLog(r.actor, "UPDATE", "users", r.actor, r.a.old, ProfileValues(row))
      [] r.kind = "create_user" ->
           AuditLog(r.actor, "CREATE", "users", r.tgt, NoValues, UserValues(row))
      [] r.kind = "update_user" ->
           AuditLog(r.actor, "UPDATE", "users", r.tgt, r.a.old, UserValues(row))
      [] r.kind = "create_transaction" ->
           AuditLog(r.actor, "CREATE", "financial_records", r.tgt, NoValues,
                    [amount |-> Float(r.a.amount), description |-> r.a.description,
                     transaction_type |-> r.a.transaction_type])
      [] r.kind = "update_transaction" ->
           AuditLog(r.actor, "UPDATE", "financial_records", r.tgt, r.a.old,
                    RecordValues(row))

refresh(s) ==
    /\ At(s, "refresh")
    /\ LET r == slots[s]
           row == IF r.kind \in UserKinds THEN users[r.tgt] ELSE records[r.tgt]
       IN IF r.kind \in {"create_user", "update_user"} /\ ~HasValue(LoadedRoleType)
          THEN Raise(s)
          ELSE /\ slots' = [slots EXCEPT ![s] =
                     [r EXCEPT !.pc = "audit", !.snap = row, !.pend = AuditOf(r, row)]]
               /\ resp' = resp
               /\ UNCHANGED <<users, records>>
    /\ UNCHANGED <<now, ticks, audit, held, failures>>

\* the client takes the response
Deliver ==
    /\ resp # NoResp
    /\ resp' = NoResp
    /\ held' = IF resp.req.kind = "logout" /\ resp.status = 200
                  /\ resp.req.tok = held.access
               THEN [held EXCEPT !.out = TRUE]
               ELSE held
    /\ UNCHANGED <<now, ticks, users, records, audit, slots, failures>>

\* the client takes the response and replaces the tokens it holds by the
\* pair it was given (Deliver is the client that goes on with the old ones)
DeliverKeep ==
    /\ resp # NoResp
    /\ resp.access # NoToken
    /\ held' = [access |-> resp.access, refresh |-> resp.refresh, out |-> FALSE]
    /\ resp' = NoResp
    /\ UNCHANGED <<now, ticks, users, records, audit, slots, failures>>

\* time passes: a minute, an access token's lifetime, a refresh token's
TickSteps ==
    {1, ACCESS_TOKEN_EXPIRE_MINUTES, REFRESH_TOKEN_EXPIRE_DAYS * MinutesPerDay}

Tick ==
    /\ resp = NoResp
    /\ ticks < MaxTicks
    /\ \E d \in TickSteps : now' = now + d
    /\ ticks' = ticks + 1
    /\ UNCHANGED <<users, records, audit, slots, resp, held, failures>>

Next ==
    \/ \E s \in First : login(s)
    \/ \E s \in First : refresh_token(s)
    \/ \E s \in First : get_current_user_info(s)
    \/ \E s \in First : logout(s)
    \/ \E s \in First : change_password(s)
    \/ \E s \in First : update_profile(s)
    \/ \E s \in First : get_users(s)
    \/ \E s \in First : get_user(s)
    \/ \E s \in First : create_user(s)
    \/ \E s \in First : update_user(s)
    \/ \E s \in First : delete_user(s)
    \/ \E s \in First : get_transactions(s)
    \/ \E s \in First : get_balance(s)
    \/ \E s \in First : create_transaction(s)
    \/ \E s \in First : update_transaction(s)
    \/ \E s \in First : delete_transaction(s)
    \/ \E s \in First : get_audit_logs(s)
    \/ \E s \in First : get_audit_log(s)
    \/ \E s \in First : get_public_transactions(s)
    \/ \E s \in First : get_public_balance(s)
    \/ \E s \in First : commit(s)
    \/ \E s \in First : refresh(s)
    \/ \E s \in First : log_action(s)
    \/ \E s \in First : log_audit(s)
    \/ Deliver

Spec == Init /\ [][Next]_vars

\* the token lifecycle over time: one client that logs in, keeps its tokens
\* and presents them later
NextTok ==
    \/ \E s \in First : login(s)
    \/ \E s \in First : refresh_token(s)
    \/ \E s \in First : get_current_user_info(s)
    \/ \E s \in First : get_balance(s)
    \/ \E s \in First : logout(s)
    \/ \E s \in First : log_action(s)
    \/ Deliver
    \/ DeliverKeep
    \/ Tick

SpecTok == Init /\ [][NextTok]_vars

\* the token lifecycle with password changes: a client that logs in, keeps
\* its tokens, changes its password with the access token it holds and
\* presents the tokens it holds again later
NextPwd ==
    LET presents(s, tok) ==
           IF slots'[s].pc # "idle" THEN slots'[s].tok = tok ELSE resp'.req.tok = tok
    IN
    \/ \E s \in First : login(s)
    \/ \E s \in First : refresh_token(s) /\ presents(s, held.refresh)
    \/ \E s \in First : get_current_user_info(s) /\ presents(s, held.access)
    \/ \E s \in First : change_password(s) /\ presents(s, held.access)
    \/ \E s \in First : commit(s)
    \/ \E s \in First : refresh(s)
    \/ \E s \in First : log_action(s)
    \/ Deliver
    \/ DeliverKeep
    \/ Tick

SpecPwd == Init /\ [][NextPwd]_vars

\* two requests at a time that write user rows: each takes its steps
\* (duplicate check, commit, refresh, audit insert) whenever it is its turn
NextRace ==
    \/ \E s \in Slots : create_user(s)
    \/ \E s \in Slots : update_user(s)
    \/ \E s \in Slots : update_profile(s)
    \/ \E s \in Slots : commit(s)
    \/ \E s \in Slots : refresh(s)
    \/ \E s \in Slots : log_action(s)
    \/ Deliver

SpecRace == Init /\ [][NextRace]_vars

\* two requests at a time that update or delete ledger entries: each takes
\* its steps (load, commit, refresh, audit insert) whenever it is its turn
NextLedger ==
    \/ \E s \in Slots : update_transaction(s)
    \/ \E s \in Slots : delete_transaction(s)
    \/ \E s \in Slots : commit(s)
    \/ \E s \in Slots : refresh(s)
    \/ \E s \in Slots : log_audit(s)
    \/ Deliver

SpecLedger == Init /\ [][NextLedger]_vars

\* a request that only reads, served while a request that writes is in
\* flight
Second == Slots \ First

NextRead ==
    \/ \E s \in First : update_profile(s)
    \/ \E s \in First : create_transaction(s)
    \/ \E s \in First : commit(s)
    \/ \E s \in First : refresh(s)
    \/ \E s \in First : log_action(s)
    \/ \E s \in First : log_audit(s)
    \/ \E s \in Second : get_current_user_info(s)
    \/ \E s \in Second : get_users(s)
    \/ \E s \in Second : get_user(s)
    \/ \E s \in Second : get_transactions(s)
    \/ \E s \in Second : get_balance(s)
    \/ \E s \in Second : get_audit_logs(s)
    \/ \E s \in Second : get_audit_log(s)
    \/ \E s \in Second : get_public_transactions(s)
    \/ \E s \in Second : get_public_balance(s)
    \/ Deliver

SpecRead == Init /\ [][NextRead]_vars

\* ------------------------------------------------------------------------
\* Properties
\* ------------------------------------------------------------------------
BearerKinds ==
    {"me", "logout", "change_password", "update_profile", "get_users", "get_user",
     "create_user", "update_user", "delete_user", "get_transactions",
     "get_balance", "create_transaction", "update_transaction",
     "delete_transaction", "get_audit_logs", "get_audit_log"}

Answered == resp # NoResp

\* the tokens create_access_token and create_refresh_token have made: the
\* pair the client holds, the pair in the response, the pair of a login
\* that has not answered yet
LoginSlots == {s \in Slots : slots[s].pc # "idle" /\ slots[s].kind = "login"}

IssuedAccess ==
    ({held.access} \cup (IF Answered THEN {resp.access} ELSE {})
       \cup {slots[s].a.access : s \in LoginSlots}) \ {NoToken}

IssuedRefresh ==
    ({held.refresh} \cup (IF Answered THEN {resp.refresh} ELSE {})
       \cup {slots[s].a.refresh : s \in LoginSlots}) \ {NoToken}

TokenTypes == {"access", "refresh"}

\* C1: a token made by create_refresh_token never verifies as an access
\* token, so both get_current_user implementations answer 401 to it; a token
\* made by create_access_token never verifies as a refresh token, so the
\* refresh endpoint answers 401 to it; a token without a type claim verifies
\* under neither type and is answered 401 everywhere.
C1_CrossTypeRejection ==
    /\ \A tok \in IssuedRefresh :
         /\ verify_token(tok, "access", now) = NoPayload
         /\ get_current_user(tok, users, now).status = 401
         /\ security_get_current_user(tok, users, now).status = 401
    /\ \A tok \in IssuedAccess : verify_token(tok, "refresh", now) = NoPayload
    /\ \A tok \in {t \in Presented : t.typ = None} :
         \A ty \in TokenTypes : verify_token(tok, ty, now) = NoPayload
    /\ (Answered /\ resp.req.tok \in IssuedRefresh
           /\ resp.req.kind \in BearerKinds) => resp.status = 401
    /\ (Answered /\ resp.req.tok \in IssuedAccess
           /\ resp.req.kind = "refresh") => resp.status = 401
    /\ (Answered /\ resp.req.tok # NoToken /\ resp.req.tok.typ = None
           /\ resp.req.kind \in BearerKinds \cup {"refresh"}) => resp.status = 401

\* an unexpired refresh token of an active user, presented as a bearer token,
\* was answered 401
C1_Witness ==
    /\ Answered
    /\ resp.req.kind = "get_balance"
    /\ resp.req.tok = held.refresh
    /\ held.refresh # NoToken
    /\ resp.req.at <= held.refresh.exp
    /\ users[IntOf(held.refresh.sub)].is_active
    /\ resp.status = 401

\* C2: once the clock is past the exp claim of an issued token, verify_token
\* rejects it under every expected type although its signature is good, and
\* every request that presents it is answered 401, whatever was done since
\* it was issued (refresh, login, logout).
C2_ExpiredRejected ==
    /\ \A tok \in IssuedAccess \cup IssuedRefresh :
         /\ tok.sig = "ok"
         /\ now > tok.exp =>
               \A ty \in TokenTypes : verify_token(tok, ty, now) = NoPayload
    /\ (/\ Answered
        /\ resp.req.tok \in IssuedAccess \cup IssuedRefresh
        /\ resp.req.at > resp.req.tok.exp
        /\ resp.req.kind \in BearerKinds \cup {"refresh"})
          => resp.status = 401

\* the access token the client holds was presented one minute after its exp
\* by its active subject and answered 401
C2_Witness ==
    /\ Answered
    /\ resp.req.kind \in BearerKinds
    /\ resp.req.tok = held.access
    /\ held.access # NoToken
    /\ resp.req.at = held.access.exp + 1
    /\ users[IntOf(held.access.sub)].is_active
    /\ resp.status = 401

\* select(User).where(User.username == username) finds an active user whose
\* hash the password verifies against
Matches(username, password) ==
    \E i \in DOMAIN users :
       /\ users[i].username = username
       /\ users[i].is_active
       /\ verify_password(password, users[i].password_hash)

\* C4: a login with the username and password of an active user is answered
\* (unless the audit write fails) with an access token {sub: the user's id,
\* type: access, exp: issue time + 30 minutes} and a refresh token {same
\* sub, type: refresh, exp: issue time + 7 days}; an issued token verifies
\* under its own type at every time up to its exp.
C4_LoginTokens ==
    /\ (Answered /\ resp.req.kind = "login") =>
         /\ (Matches(resp.req.a.username, resp.req.a.password)
               <=> resp.status \in {200, 500})
         /\ (resp.status = 500 => failures > 0)
         /\ resp.status = 200 =>
              /\ users[resp.req.actor].username = resp.req.a.username
              /\ resp.access.sub = Str(resp.req.actor)
              /\ resp.access.typ = "access"
              /\ resp.access.exp = resp.req.at + 30
              /\ resp.refresh.sub = Str(resp.req.actor)
              /\ resp.refresh.typ = "refresh"
              /\ resp.refresh.exp = resp.req.at + 7 * 24 * 60
    /\ \A tok \in IssuedAccess :
         now <= tok.exp => verify_token(tok, "access", now) = tok
    /\ \A tok \in IssuedRefresh :
         now <= tok.exp => verify_token(tok, "refresh", now) = tok

\* a login some time after start-up was answered with its tokens
C4_Witness ==
    /\ Answered
    /\ resp.req.kind = "login"
    /\ resp.status = 200
    /\ resp.req.at > 0
    /\ now > resp.req.at

\* the token is a good access token at time t: signed, unexpired, typed
GoodAccess(tok, t) ==
    /\ tok # NoToken
    /\ tok.sig = "ok"
    /\ tok.typ = "access"
    /\ tok.exp >= t
    /\ IsIntString(tok.sub)

GoodRefresh(tok, t) ==
    /\ tok # NoToken
    /\ tok.sig = "ok"
    /\ tok.typ = "refresh"
    /\ tok.exp >= t
    /\ IsIntString(tok.sub)

\* no row with this id, or a row whose is_active is false
InactiveOrMissing(id) == id \notin DOMAIN users \/ ~users[id].is_active

InFlight == {s \in Slots : slots[s].pc # "idle"}

\* C3: no request is ever handled, and no login or refresh answered with
\* success, on behalf of a user whose row is inactive or missing: a bearer
\* request with a good access token of such a subject, a refresh with a good
\* refresh token of such a subject, and a login with the correct password of
\* an inactive user are answered 401.
C3_InactiveNeverAuthenticated ==
    /\ \A s \in InFlight :
         slots[s].actor # NoId =>
            (slots[s].actor \in DOMAIN users /\ slots[s].cu.is_active)
    /\ (Answered /\ resp.req.actor # NoId) =>
          (resp.req.actor \in DOMAIN users /\ resp.req.cu.is_active)
    /\ (Answered /\ resp.req.kind \in BearerKinds
          /\ GoodAccess(resp.req.tok, resp.req.at)
          /\ InactiveOrMissing(IntOf(resp.req.tok.sub))) => resp.status = 401
    /\ (Answered /\ resp.req.kind = "refresh"
          /\ GoodRefresh(resp.req.tok, resp.req.at)
          /\ InactiveOrMissing(IntOf(resp.req.tok.sub))) => resp.status = 401
    /\ (Answered /\ resp.req.kind = "login"
          /\ \A i \in DOMAIN users :
                users[i].username = resp.req.a.username => ~users[i].is_active)
         => resp.status = 401
    /\ \A tok \in Presented :
         /\ get_current_user(tok, users, now).status = 200
               => users[get_current_user(tok, users, now).uid].is_active
         /\ security_get_current_user(tok, users, now).status = 200
               => users[security_get_current_user(tok, users, now).uid].is_active

\* a good access token of the inactive user was presented and answered 401
C3_Witness ==
    /\ Answered
    /\ resp.req.kind \in BearerKinds
    /\ GoodAccess(resp.req.tok, resp.req.at)
    /\ IntOf(resp.req.tok.sub) \in DOMAIN users
    /\ ~users[IntOf(resp.req.tok.sub)].is_active
    /\ resp.status = 401

AdminGated ==
    {"create_user", "update_user", "delete_user", "create_transaction",
     "update_transaction", "delete_transaction", "get_audit_logs",
     "get_audit_log"}

\* the token authenticates an active user whose role is not admin
NonAdminBearer(tok, t) ==
    /\ GoodAccess(tok, t)
    /\ ~InactiveOrMissing(IntOf(tok.sub))
    /\ users[IntOf(tok.sub)].role # "admin"

\* the request slot s took in this step, if it took one
Taken(s) == IF slots'[s].pc # "idle" THEN slots'[s] ELSE resp'.req

Took(s) ==
    /\ slots[s].pc = "idle"
    /\ resp = NoResp
    /\ \/ slots'[s].pc # "idle"
       \/ resp' # NoResp /\ resp'.slot = s

\* C5: a request to create, update or delete a ledger entry, to create,
\* update or deactivate a user, or to read the audit log, that is
\* authenticated as a user whose role is not admin, is answered 403 in the
\* step that takes it, with the users, the ledger and the audit log
\* unchanged; no such handler ever runs for a caller who is not an admin.
C5_NonAdminGate ==
    [][/\ \A s \in Slots :
            (/\ Took(s)
             /\ Taken(s).kind \in AdminGated
             /\ NonAdminBearer(Taken(s).tok, now))
               => /\ resp' # NoResp
                  /\ resp'.status = 403
                  /\ users' = users
                  /\ records' = records
                  /\ audit' = audit
       /\ \A s \in Slots :
            (slots'[s].pc # "idle" /\ slots'[s].kind \in AdminGated)
               => users'[slots'[s].actor].role = "admin"
       /\ (users' # users \/ records' # records) =>
            \E s \in Slots :
               /\ slots[s].pc = "commit"
               /\ slots[s].kind \in AdminGated
                     => users[slots[s].actor].role = "admin"]_vars

\* the viewer asked for a ledger entry to be created and was answered 403
C5_Witness ==
    /\ Answered
    /\ resp.req.kind = "create_transaction"
    /\ NonAdminBearer(resp.req.tok, resp.req.at)
    /\ resp.status = 403

\* the requests that create, update or delete a user or a ledger entry
MutationKinds ==
    UsersRouterKinds \cup LedgerKinds \cup {"change_password", "update_profile"}

ExpectedAction(kind) ==
    CASE kind \in {"create_user", "create_transaction"} -> "CREATE"
      [] kind \in {"delete_user", "delete_transaction"} -> "DELETE"
      [] OTHER -> "UPDATE"

ExpectedTable(kind) ==
    IF kind \in LedgerKinds THEN "financial_records" ELSE "users"

\* the table the request works on
TableOf(r) == IF r.kind \in LedgerKinds THEN records ELSE users

\* C6: when a request that creates, updates or deletes a user or a ledger
\* entry is answered with success, it has inserted exactly one audit record;
\* the record's action type and table name are those of the operation, its
\* record id is the id of the row the request wrote, and its user_id is the
\* id of the user the request's token authenticated.
C6_OneAuditPerSuccess ==
    (Answered /\ resp.status = 200 /\ resp.req.kind \in MutationKinds) =>
       /\ Len(resp.req.audited) = 1
       /\ resp.req.audited[1] \in 1..Len(audit)
       /\ LET rec == audit[resp.req.audited[1]]
              r == resp.req
          IN /\ rec.action_type = ExpectedAction(r.kind)
             /\ rec.table_name = ExpectedTable(r.kind)
             /\ rec.record_id = r.tgt
             /\ r.tgt \in DOMAIN TableOf(r)
             /\ TableOf(r)[r.tgt] = r.snap
             /\ r.kind \in {"change_password", "update_profile"}
                   => rec.record_id = IntOf(r.tok.sub)
             /\ rec.user_id = IntOf(r.tok.sub)
             /\ \A i \in 1..Len(audit) :
                   (i # r.audited[1] /\ audit[i].table_name = rec.table_name
                      /\ audit[i].record_id = rec.record_id
                      /\ audit[i].action_type \in {"CREATE", "DELETE"})
                     => audit[i].action_type # rec.action_type

\* an admin created a ledger entry, was answered 200, and the log holds the
\* CREATE record of the new row
C6_Witness ==
    /\ Answered
    /\ resp.status = 200
    /\ resp.req.kind = "create_transaction"
    /\ resp.req.tgt = Len(records)
    /\ Len(resp.req.audited) = 1
    /\ audit[resp.req.audited[1]].action_type = "CREATE"
    /\ audit[resp.req.audited[1]].record_id = Len(records)

\* the audit log holds a record of this action on this row
Audited(action_type, table_name, record_id) ==
    \E i \in 1..Len(audit) :
       /\ audit[i].action_type = action_type
       /\ audit[i].table_name = table_name
       /\ audit[i].record_id = record_id

\* C7: whenever no request is in flight and no commit has failed, every
\* user that create_user added has a CREATE record, every user whose
\* password or profile differs from the start has an UPDATE or DELETE
\* record, every ledger entry added has a CREATE record, and every ledger
\* entry that differs from the start has an UPDATE or DELETE record.
C7_EveryMutationAudited ==
    (InFlight = {} /\ failures = 0) =>
       /\ \A i \in DOMAIN users :
            /\ i > Len(SeedUsers) => Audited("CREATE", "users", i)
            /\ (i <= Len(SeedUsers) /\ users[i] # SeedUsers[i])
                  => Audited("UPDATE", "users", i) \/ Audited("DELETE", "users", i)
       /\ \A i \in DOMAIN records :
            /\ i > Len(SeedRecords) => Audited("CREATE", "financial_records", i)
            /\ (i <= Len(SeedRecords) /\ records[i] # SeedRecords[i])
                  => \/ Audited("UPDATE", "financial_records", i)
                     \/ Audited("DELETE", "financial_records", i)

\* C8: when the audit insert of a request fails after the request's own
\* commit, the step that fails leaves the users, the ledger and the audit log
\* as they were: the request is answered 500, the row it wrote still holds
\* what the commit wrote, and the log has gained no record.
C8_AuditFailureKeepsMutation ==
    [][\A s \in Slots :
          LET r == slots[s] IN
          (/\ r.pc = "audit"
           /\ r.committed
           /\ slots'[s].pc = "idle"
           /\ resp' # NoResp
           /\ resp'.status = 500)
             => /\ users' = users
                /\ records' = records
                /\ audit' = audit
                /\ resp'.req.audited = <<>>
                /\ IF r.kind \in LedgerKinds
                   THEN r.tgt \in DOMAIN records' /\ records'[r.tgt] = r.snap
                   ELSE r.tgt \in DOMAIN users' /\ users'[r.tgt] = r.snap]_vars

\* the audit insert of a ledger update or delete failed: the answer is 500,
\* the entry holds the new state, which is not the old one, and the log is
\* empty
C8_Witness ==
    /\ Answered
    /\ resp.status = 500
    /\ resp.req.pc = "audit"
    /\ resp.req.committed
    /\ resp.req.kind \in {"update_transaction", "delete_transaction"}
    /\ records[resp.req.tgt] = resp.req.snap
    /\ records[resp.req.tgt] # resp.req.orig
    /\ audit = <<>>

\* the state of the row a request committed, as its audit records spell it
EntityState(r) ==
    IF r.kind \in LedgerKinds
    THEN [amount |-> Float(r.snap.amount), description |-> r.snap.description,
          transaction_type |-> r.snap.transaction_type,
          is_deleted |-> r.snap.is_deleted]
    ELSE [username |-> r.snap.username, email |-> r.snap.email,
          full_name |-> r.snap.full_name, role |-> r.snap.role,
          is_active |-> r.snap.is_active]

\* C9: a request that is about to insert, or has inserted, the audit record
\* of a create, update or delete has committed its change before, and every
\* field of the entity in the record's new_values has the value the row
\* held when it was read back after that commit.
C9_AuditAfterCommit ==
    /\ \A s \in InFlight :
         (slots[s].kind \in MutationKinds /\ slots[s].pc = "audit")
            => /\ slots[s].committed
               /\ \A f \in DOMAIN slots[s].pend.new_values \cap DOMAIN EntityState(slots[s]) :
                     slots[s].pend.new_values[f] = EntityState(slots[s])[f]
    /\ (Answered /\ resp.req.kind \in MutationKinds /\ resp.req.audited # <<>>)
          => /\ resp.req.committed
             /\ LET rec == audit[resp.req.audited[1]] IN
                \A f \in DOMAIN rec.new_values \cap DOMAIN EntityState(resp.req) :
                   rec.new_values[f] = EntityState(resp.req)[f]

\* C10: no step removes or changes a record of the audit log; a step that
\* changes the log appends one record, the one a request at its audit insert
\* (log_action or log_audit) has built.
C10_AppendOnly ==
    [][/\ Len(audit') >= Len(audit)
       /\ \A i \in 1..Len(audit) : audit'[i] = audit[i]
       /\ audit' # audit =>
            \E s \in Slots :
               /\ slots[s].pc = "audit"
               /\ audit' = Append(audit, slots[s].pend)]_vars

\* the log holds two records
C10_Witness ==
    /\ Len(audit) = 2
    /\ InFlight = {}

\* C11: the step that takes an admin's delete_user request on the admin's
\* own id answers it at once with an error; the users (the admin stays
\* active), the ledger and the audit log are as before, and the request has
\* written no audit record.
C11_SelfDeleteNoWrite ==
    [][\A s \in Slots :
          (/\ Took(s)
           /\ Taken(s).kind = "delete_user"
           /\ Taken(s).actor # NoId
           /\ Taken(s).tgt = Taken(s).actor)
             => /\ resp' # NoResp
                /\ resp'.status >= 400
                /\ resp'.req.audited = <<>>
                /\ ~resp'.req.committed
                /\ users' = users
                /\ users'[resp'.req.actor].is_active
                /\ records' = records
                /\ audit' = audit]_vars

\* an admin asked for its own deletion, was refused, and is still active
C11_Witness ==
    /\ Answered
    /\ resp.req.kind = "delete_user"
    /\ resp.req.actor # NoId
    /\ resp.req.tgt = resp.req.actor
    /\ resp.status >= 400
    /\ resp.detail = "Cannot delete your own account"
    /\ users[resp.req.actor].is_active
    /\ users[resp.req.actor].role = "admin"

\* C12: an admin's delete_user request on its own id is answered 403 with
\* the detail "Cannot delete your own account".
C12_SelfDeleteForbidden ==
    (/\ Answered
     /\ resp.req.kind = "delete_user"
     /\ resp.req.actor # NoId
     /\ resp.req.tgt = resp.req.actor)
       => /\ resp.status = 403
          /\ resp.detail = "Cannot delete your own account"

\* a request of the users router that would make its own caller inactive
SelfDeactivation(r) ==
    /\ r.actor # NoId
    /\ r.tgt = r.actor
    /\ \/ r.kind = "delete_user"
       \/ r.kind = "update_user" /\ r.a.user_data.is_active = "False"

\* C13: every request of an admin that would deactivate the admin itself,
\* delete_user on its own id or update_user on its own id with
\* is_active=false, ends in a rejection (400 or 403), and no user's
\* is_active goes from true to false in a step of a request of that user.
C13_NoSelfDeactivation ==
    [][/\ (resp' # NoResp /\ resp = NoResp /\ SelfDeactivation(resp'.req))
            => resp'.status \in {400, 403}
       /\ \A s \in Slots : \A i \in DOMAIN users :
            (users[i].is_active /\ ~users'[i].is_active /\ slots[s].pc = "commit")
               => slots[s].actor # i]_vars

\* C14: a login whose username and password do not match an active user
\* (unknown username, wrong password, correct password of an inactive user)
\* is answered in the step that takes it with 401 "Incorrect username or
\* password" and no token, whatever the cause and however often it is
\* repeated; it writes no audit record and leaves users and ledger as they
\* were.
C14_LoginFailuresAlike ==
    [][\A s \in Slots :
          (/\ Took(s)
           /\ Taken(s).kind = "login"
           /\ ~Matches(Taken(s).a.username, Taken(s).a.password))
             => /\ resp' # NoResp
                /\ resp'.status = 401
                /\ resp'.detail = "Incorrect username or password"
                /\ resp'.access = NoToken
                /\ resp'.refresh = NoToken
                /\ resp'.req.audited = <<>>
                /\ users' = users
                /\ records' = records
                /\ audit' = audit]_vars

\* the inactive user logged in with its correct password and was answered
\* 401
C14_Witness ==
    /\ Answered
    /\ resp.req.kind = "login"
    /\ resp.status = 401
    /\ \E i \in DOMAIN users :
          /\ users[i].username = resp.req.a.username
          /\ ~users[i].is_active
          /\ verify_password(resp.req.a.password, users[i].password_hash)

\* token strings that are no JWT at all, next to the ones requests carry
Malformed == {[tok EXCEPT !.sig = "malformed"] : tok \in Presented}

\* C15: for every token and expected type, verify_token returns either the
\* token's payload, and then the signature is good, the token unexpired and
\* its type the expected one, or the one value None: a malformed token, a
\* bad signature, a wrong type and an expired token all give None.
C15_OneFailureValue ==
    \A tok \in Presented \cup Malformed : \A ty \in TokenTypes :
       LET v == verify_token(tok, ty, now) IN
       /\ (tok.sig # "ok" \/ tok.exp < now \/ tok.typ # ty) => v = NoPayload
       /\ v # NoPayload => (v = tok /\ tok.sig = "ok" /\ tok.exp >= now /\ tok.typ = ty)

\* the client holds an expired access token and an unexpired refresh token;
\* with the preset token of bad signature, all causes of rejection are there
C15_Witness ==
    /\ held.access # NoToken
    /\ held.access.exp < now
    /\ held.refresh.exp >= now
    /\ verify_token(held.access, "access", now) = NoPayload
    /\ verify_token(held.refresh, "access", now) = NoPayload
    /\ \E tok \in Presented : tok.sig = "bad" /\ tok.exp >= now /\ tok.typ = "access"

\* C16: whatever makes the authentication of a bearer request fail, the
\* answer is one and the same: the detail of a bearer request's 401 is the
\* detail with which both get_current_user implementations turn away every
\* other token that fails.
C16_OneAuthFailureBody ==
    (Answered /\ resp.req.kind \in BearerKinds /\ resp.status = 401) =>
        \A t2 \in Presented :
            LET a2 == get_current_user(t2, users, now)
                b2 == security_get_current_user(t2, users, now)
            IN /\ a2.status \notin {200, 500} =>
                     a2.status = 401 /\ a2.detail = resp.detail
               /\ b2.status \notin {200, 500} =>
                     b2.status = 401 /\ b2.detail = resp.detail

\* a refresh request's token is good and its subject an active user
Refreshable(tok, t) ==
    /\ GoodRefresh(tok, t)
    /\ ~InactiveOrMissing(IntOf(tok.sub))

\* C17: a refresh whose token verifies as a refresh token and whose subject
\* is an active user is answered with an access token and a refresh token
\* that both carry the presented token's sub and verify under their own
\* type; every other refresh is answered 401 without tokens.
C17_Refresh ==
    (Answered /\ resp.req.kind = "refresh") =>
       IF Refreshable(resp.req.tok, resp.req.at)
       THEN /\ resp.status = 200
            /\ resp.access.sub = resp.req.tok.sub
            /\ resp.refresh.sub = resp.req.tok.sub
            /\ verify_token(resp.access, "access", resp.req.at) = resp.access
            /\ verify_token(resp.refresh, "refresh", resp.req.at) = resp.refresh
            /\ resp.access.exp = resp.req.at + 30
            /\ resp.refresh.exp = resp.req.at + 7 * 24 * 60
       ELSE /\ resp.status = 401
            /\ resp.access = NoToken
            /\ resp.refresh = NoToken

\* the refresh token the client holds was presented some time after it was
\* issued and answered with tokens that expire later
C17_Witness ==
    /\ Answered
    /\ resp.req.kind = "refresh"
    /\ resp.req.tok = held.refresh
    /\ held.refresh # NoToken
    /\ resp.status = 200
    /\ resp.refresh.exp > held.refresh.exp
    /\ resp.access.sub = held.refresh.sub

\* C18: a logout that is answered with success has inserted exactly one
\* audit record, a LOGOUT record whose user_id is the caller's id; and once
\* the client has logged out with the access token it holds, that token is
\* still accepted by both get_current_user implementations and by every
\* authenticated endpoint while it is unexpired, and the refresh token
\* issued with it still refreshes while unexpired.
C18_LogoutRevokesNothing ==
    /\ (Answered /\ resp.req.kind = "logout" /\ resp.status = 200) =>
          /\ Len(resp.req.audited) = 1
          /\ audit[resp.req.audited[1]].action_type = "LOGOUT"
          /\ audit[resp.req.audited[1]].user_id = IntOf(resp.req.tok.sub)
          /\ \A i \in 1..Len(audit) :
                (i > resp.req.audited[1]) => audit[i].action_type # "LOGOUT"
    /\ (held.out /\ now <= held.access.exp
          /\ ~InactiveOrMissing(IntOf(held.access.sub))) =>
          /\ get_current_user(held.access, users, now).status = 200
          /\ security_get_current_user(held.access, users, now).status = 200
    /\ (held.out /\ now <= held.refresh.exp) =>
          verify_token(held.refresh, "refresh", now) = held.refresh
    /\ (Answered /\ held.out /\ resp.req.tok = held.access
          /\ resp.req.kind \in BearerKinds
          /\ resp.req.at <= held.access.exp) => resp.status \notin {401}
    /\ (Answered /\ held.out /\ resp.req.tok = held.refresh
          /\ resp.req.kind = "refresh"
          /\ resp.req.at <= held.refresh.exp) => resp.status = 200

\* the client logged out with its access token, and a later request with the
\* same token was answered 200
C18_Witness ==
    /\ held.out
    /\ \E i \in 1..Len(audit) :
          audit[i].action_type = "LOGOUT" /\ audit[i].user_id = IntOf(held.access.sub)
    /\ Answered
    /\ resp.req.kind = "me"
    /\ resp.req.tok = held.access
    /\ resp.status = 200

\* C19: authenticating is a function of the token, the user rows and the
\* token being unexpired: over any step that leaves the user rows alone, a
\* token that is unexpired after the step is answered by get_current_user
\* (both implementations) after the step as it was before it, with the same
\* user id on success. And authenticating writes nothing: a step that takes
\* a request which only authenticates (GET /me, or any bearer request that
\* is turned away at authentication) leaves the users, the ledger and the
\* audit log as they were, and a request that was let in acts as the user
\* the token names.
C19_AuthenticationIsPure ==
    [][ /\ \A tok \in Presented :
             (users' = users /\ tok.exp >= now') =>
                 /\ get_current_user(tok, users', now') = get_current_user(tok, users, now)
                 /\ security_get_current_user(tok, users', now')
                       = security_get_current_user(tok, users, now)
        /\ \A s \in Slots :
             (Took(s) /\ Taken(s).kind \in BearerKinds) =>
                 /\ (Taken(s).kind = "me" \/ Taken(s).actor = NoId) =>
                       /\ users' = users
                       /\ records' = records
                       /\ audit' = audit
                 /\ Taken(s).actor # NoId =>
                       /\ users' = users
                       /\ records' = records
                       /\ audit' = audit
                       /\ Taken(s).tok.sub = ToString(Taken(s).actor)
                       /\ Taken(s).cu = users[Taken(s).actor]
      ]_vars

\* the access token the client holds was verified again some time after it
\* was issued and gave the user it names, and nothing has been written
C19_Witness ==
    /\ Answered
    /\ resp.req.kind = "me"
    /\ resp.req.tok = held.access
    /\ resp.status = 200
    /\ resp.req.at > held.access.exp - ACCESS_TOKEN_EXPIRE_MINUTES
    /\ resp.req.actor = IntOf(held.access.sub)
    /\ users = SeedUsers
    /\ audit = <<>>

HandledErrors == {400, 401, 403, 404}

\* C20: a request that is answered 400, 401, 403 or 404 has written nothing:
\* the step that answers it leaves the users, the ledger and the audit log
\* as they were, and the request has committed nothing and inserted no audit
\* record before.  In particular an update_profile that is answered "Email
\* already exists" after its new username was found free leaves the caller's
\* row, username included, as the request found it.
C20_HandledErrorWritesNothing ==
    [][ (resp = NoResp /\ resp' # NoResp /\ resp'.status \in HandledErrors) =>
           /\ users' = users
           /\ records' = records
           /\ audit' = audit
           /\ ~resp'.req.committed
           /\ resp'.req.audited = <<>>
           /\ (resp'.req.kind = "update_profile" /\ resp'.req.actor # NoId) =>
                 /\ users'[resp'.req.actor] = resp'.req.cu
                 /\ users'[resp'.req.actor].username = resp'.req.a.old.username
      ]_vars

\* an update_profile with a free new username and a taken new email was
\* answered 400, and the caller still has the username it had
C20_Witness ==
    /\ Answered
    /\ resp.req.kind = "update_profile"
    /\ resp.status = 400
    /\ resp.detail = "Email already exists"
    /\ resp.req.a.username # None
    /\ OtherByUsername(users, resp.req.a.username, resp.req.actor) = {}
    /\ resp.req.ent.username = resp.req.a.username
    /\ users[resp.req.actor].username = resp.req.cu.username
    /\ users[resp.req.actor].username # resp.req.a.username
    /\ audit = <<>>

\* the password a stored hash was made from
PlainOf(hashed_password) == hashed_password.digest[2]

\* C21: the password hash of an existing user is replaced only by a
\* change_password request of that user whose current_password is the
\* password the stored hash was made from.  A change_password answered 400
\* has left the caller's hash as it was and written no audit record; one
\* answered 200 has stored a hash of the new password and written exactly one
\* audit record: UPDATE on users, by and of the caller, without old_values,
\* with new_values {password_changed: true}.
C21_ChangePassword ==
    [][ /\ \A i \in DOMAIN users :
             users'[i].password_hash # users[i].password_hash =>
                \E s \in Slots :
                   LET r == slots[s] IN
                   /\ r.kind = "change_password"
                   /\ r.pc = "commit"
                   /\ r.actor = i
                   /\ r.a.current_password = PlainOf(users[i].password_hash)
                   /\ PlainOf(users'[i].password_hash) = r.a.new_password
        /\ (resp = NoResp /\ resp' # NoResp /\ resp'.req.kind = "change_password"
              /\ resp'.req.actor # NoId) =>
            LET r == resp'.req IN
            /\ resp'.status = 400 =>
                  /\ r.a.current_password # PlainOf(r.cu.password_hash)
                  /\ users'[r.actor].password_hash = r.cu.password_hash
                  /\ users' = users
                  /\ audit' = audit
                  /\ r.audited = <<>>
            /\ resp'.status = 200 =>
                  /\ r.a.current_password = PlainOf(r.cu.password_hash)
                  /\ PlainOf(users'[r.actor].password_hash) = r.a.new_password
                  /\ users'[r.actor].password_hash # r.cu.password_hash
                  /\ Len(r.audited) = 1
                  /\ audit'[r.audited[1]] =
                        AuditLog(r.actor, "UPDATE", "users", r.actor, NoValues,
                                 [password_changed |-> TRUE])
      ]_vars

\* a change of password was answered 200 with the new hash stored and its
\* one audit record written
C21_Witness ==
    /\ Answered
    /\ resp.req.kind = "change_password"
    /\ resp.status = 200
    /\ resp.req.a.new_password # resp.req.a.current_password
    /\ PlainOf(users[resp.req.actor].password_hash) = resp.req.a.new_password
    /\ Len(audit) = 1
    /\ audit[1].new_values = [password_changed |-> TRUE]

PublicFields == {"username", "email", "full_name", "role", "is_active"}
SecretFields == {"password_hash", "password", "current_password", "new_password"}

\* old_values or new_values of an audit record of the users table: nothing,
\* the marker of a password change, or public fields none of which holds a
\* password
NoSecret(values) ==
    \/ values = NoValues
    \/ values = [password_changed |-> TRUE]
    \/ /\ DOMAIN values \subseteq PublicFields
       /\ \A f \in DOMAIN values \ {"is_active"} : values[f] \notin Passwords

UsersAudit(log) == log.table_name = "users"

\* C22: no audit record, written or about to be written, holds a password
\* hash or a password: none has a field of that name, the values of a record
\* of the users table are public fields of the user (username, email,
\* full_name, role, is_active) or the marker {password_changed: true}, and
\* the snapshots the handlers take of a user row leave the hash out.
C22_NoSecretInAudit ==
    /\ \A i \in 1..Len(audit) :
          /\ DOMAIN audit[i].old_values \cap SecretFields = {}
          /\ DOMAIN audit[i].new_values \cap SecretFields = {}
          /\ UsersAudit(audit[i]) =>
                NoSecret(audit[i].old_values) /\ NoSecret(audit[i].new_values)
    /\ \A s \in InFlight :
          (slots[s].pc = "audit" /\ UsersAudit(slots[s].pend)) =>
              NoSecret(slots[s].pend.old_values) /\ NoSecret(slots[s].pend.new_values)
    /\ \A i \in DOMAIN users :
          /\ DOMAIN UserValues(users[i]) = PublicFields
          /\ DOMAIN ProfileValues(users[i]) \subseteq PublicFields

\* the log holds the record of a password change and the record of a profile
\* update with its snapshots
C22_Witness ==
    /\ \E i \in 1..Len(audit) : audit[i].new_values = [password_changed |-> TRUE]
    /\ \E j \in 1..Len(audit) :
          /\ audit[j].action_type = "UPDATE"
          /\ "username" \in DOMAIN audit[j].old_values
          /\ "username" \in DOMAIN audit[j].new_values

\* the users table holds no two rows with one username or one email
UniqueUsers(U) ==
    \A i \in DOMAIN U, j \in DOMAIN U :
        i # j => U[i].username # U[j].username /\ U[i].email # U[j].email

\* a request that has passed its duplicate checks and not yet committed
PassedChecks(r) ==
    /\ r.kind \in {"create_user", "update_user", "update_profile"}
    /\ r.pc = "commit"

\* C23: in every state the stored users have pairwise different usernames
\* and pairwise different emails, whatever the order in which concurrent
\* create_user, update_user and update_profile requests take their duplicate
\* checks and their commits.
C23_UniqueUsers == UniqueUsers(users)

\* two requests passed their duplicate checks with the same new username
\* before either committed; one has committed it, the other was refused at
\* its commit
C23_Witness ==
    /\ Answered
    /\ resp.status = 500
    /\ resp.req.kind \in {"create_user", "update_profile"}
    /\ resp.req.pc = "commit"
    /\ ~resp.req.committed
    /\ OtherByUsername(users, resp.req.ent.username, resp.req.tgt) # {}
    /\ \A i \in DOMAIN SeedUsers : SeedUsers[i].username # resp.req.ent.username

\* the identities other than the request's own target that hold the
\* username or the email a create_user or update_user request asks for
Conflicting(r) ==
    IF r.kind = "create_user"
    THEN UserByUsernameOrEmail(users, r.a.username, r.a.email, NoId)
    ELSE UserByUsernameOrEmail(users, r.a.user_data.username, r.a.user_data.email, r.tgt)

\* an admin's create_user, or update_user of an existing user, that has
\* stored nothing itself
AdminWrite(r) ==
    /\ r.kind \in {"create_user", "update_user"}
    /\ r.actor # NoId
    /\ ~r.committed
    /\ r.kind = "update_user" => r.tgt \in DOMAIN users

\* C24: a create_user or update_user request that asks for a username or
\* an email held by another identity is answered 400, also when one
\* identity holds the username and another the email, and also when the
\* identity that holds it was committed after the request's own check.
C24_DuplicateRejected ==
    (Answered /\ AdminWrite(resp.req) /\ Conflicting(resp.req) # {})
        => resp.status = 400

\* the same, for the requests whose conflict is with one identity only
C24_RaceRejected ==
    (Answered /\ AdminWrite(resp.req) /\ Cardinality(Conflicting(resp.req)) = 1)
        => resp.status = 400

\* the password of a create_user or change_password request
RequestPassword(r) ==
    IF r.kind = "create_user" THEN r.a.password ELSE r.a.new_password

\* at least 8 characters, an uppercase letter, a lowercase letter, a digit
StatedPolicy(v) ==
    LET c == Chars(v) IN
    /\ Len(c) >= 8
    /\ \E i \in 1..Len(c) : isupper(c[i])
    /\ \E i \in 1..Len(c) : islower(c[i])
    /\ \E i \in 1..Len(c) : isdigit(c[i])

\* a request of an authenticated caller that carries a new password
CarriesPassword(r) ==
    /\ r.kind \in {"create_user", "change_password"}
    /\ r.actor # NoId

CleanUserRequest(r) ==
    /\ r.actor # NoId
    /\ \/ /\ r.kind = "create_user"
          /\ validate_password(r.a.password) = Valid
          /\ UserByUsernameOrEmail(users, r.a.username, r.a.email, r.tgt) = {}
       \/ /\ r.kind = "update_user"
          /\ r.tgt \in DOMAIN users
          /\ r.tgt # r.actor
          /\ Conflicting(r) = {}
       \/ /\ r.kind = "delete_user"
          /\ r.tgt \in DOMAIN users
          /\ r.tgt # r.actor

\* C26: while the store works, every such request is answered with success,
\* with its change committed and one audit record written that holds the
\* snapshots.
C26_UserRequestsSucceed ==
    (Answered /\ CleanUserRequest(resp.req) /\ failures = 0) =>
        /\ resp.status = 200
        /\ resp.req.committed
        /\ Len(resp.req.audited) = 1
        /\ audit[resp.req.audited[1]].record_id = resp.req.tgt

ReadKinds ==
    {"me", "get_users", "get_user", "get_transactions", "get_balance",
     "get_audit_logs", "get_audit_log", "get_public_transactions",
     "get_public_balance"}

\* the request slot s works on in this step, if the step is one of s
StepOf(s) ==
    \/ slots'[s] # slots[s]
    \/ resp = NoResp /\ resp' # NoResp /\ resp'.slot = s

RequestOf(s) == IF slots[s].pc # "idle" THEN slots[s] ELSE Taken(s)

\* C27: no step of a request to a read-only endpoint (GET /me, the list and
\* get of users, the list of ledger entries, the balance, the audit log
\* queries, the public views) changes a user, a ledger entry or the audit
\* log, whatever other request is in flight; and such a request is answered
\* without having committed or audited anything.
C27_ReadsWriteNothing ==
    [][ /\ \A s \in Slots :
             (StepOf(s) /\ RequestOf(s).kind \in ReadKinds) =>
                 /\ users' = users
                 /\ records' = records
                 /\ audit' = audit
        /\ (resp' # NoResp /\ resp'.req.kind \in ReadKinds) =>
                 /\ ~resp'.req.committed
                 /\ resp'.req.audited = <<>>
      ]_vars

\* a read was answered that came in while a writing request was in flight
\* and was answered after that request had committed
C27_Witness ==
    /\ Answered
    /\ resp.req.kind \in ReadKinds
    /\ resp.status = 200
    /\ resp.req.actor # NoId
    /\ \E s \in First :
          /\ slots[s].pc # "idle"
          /\ slots[s].committed
    /\ resp.req.pc = "query"
    /\ \/ users # SeedUsers
       \/ records # SeedRecords

\* the request was let in with a good access token of an active user who,
\* for an admin-only action, is an admin
Authorized(r) ==
    /\ r.actor # NoId
    /\ GoodAccess(r.tok, r.at)
    /\ IntOf(r.tok.sub) = r.actor
    /\ r.cu.is_active
    /\ r.kind \in AdminGated => r.cu.role = "admin"

\* C28: a request goes through its stages in order.  Users and ledger are
\* changed only by the commit of a request that was authenticated and
\* authorized before and has not yet audited; an audit record is inserted
\* only by an authenticated request that, if its action is a mutation, has
\* committed it; a mutation is answered with success only after both.  A
\* bearer request whose token fails authentication is answered 401 in the
\* step that takes it: it is never let in, commits nothing and audits
\* nothing.
C28_StagesInOrder ==
    [][ /\ (users' # users \/ records' # records) =>
             \E s \in Slots :
                /\ slots[s].pc = "commit"
                /\ slots[s].kind \in MutationKinds
                /\ Authorized(slots[s])
                /\ ~slots[s].committed
                /\ slots[s].audited = <<>>
                /\ slots'[s].pc # "idle" => slots'[s].committed
                /\ audit' = audit
        /\ audit' # audit =>
             \E s \in Slots :
                /\ slots[s].pc = "audit"
                /\ slots[s].audited = <<>>
                /\ slots[s].kind \in BearerKinds => Authorized(slots[s])
                /\ slots[s].kind \in MutationKinds => slots[s].committed
                /\ users' = users
                /\ records' = records
        /\ (resp' # NoResp /\ resp'.status = 200 /\ resp'.req.kind \in MutationKinds) =>
                /\ Authorized(resp'.req)
                /\ resp'.req.committed
                /\ Len(resp'.req.audited) = 1
        /\ \A s \in Slots :
             (/\ Took(s)
              /\ Taken(s).kind \in BearerKinds
              /\ \/ ~GoodAccess(Taken(s).tok, now)
                 \/ InactiveOrMissing(IntOf(Taken(s).tok.sub)))
                => /\ resp' # NoResp
                   /\ resp'.status = 401
                   /\ resp'.req.actor = NoId
                   /\ ~resp'.req.committed
                   /\ resp'.req.audited = <<>>
                   /\ slots'[s].pc = "idle"
                   /\ users' = users
                   /\ records' = records
                   /\ audit' = audit
      ]_vars

\* a ledger entry was created by a request that passed every stage
C28_Witness ==
    /\ Answered
    /\ resp.req.kind = "create_transaction"
    /\ resp.status = 200
    /\ Authorized(resp.req)
    /\ resp.req.committed
    /\ Len(resp.req.audited) = 1
    /\ Len(records) > Len(SeedRecords)

\* C29: a login is answered with tokens only in the step that inserts its
\* audit record, and that record is its only one: action LOGIN, table users,
\* user_id and record_id the id of the user who logged in, which is the
\* subject of both tokens.  When the insert fails the login is answered with
\* a server error and without tokens.  A login answered 401 has inserted no
\* audit record and carries no tokens.
C29_LoginAudited ==
    [][ (resp = NoResp /\ resp' # NoResp /\ resp'.req.kind = "login") =>
          LET r == resp'.req IN
          /\ resp'.access # NoToken =>
                /\ resp'.status = 200
                /\ resp'.refresh # NoToken
                /\ audit' = Append(audit, AuditLog(r.actor, "LOGIN", "users", r.actor,
                                                   NoValues, NoValues))
                /\ r.audited = <<Len(audit')>>
                /\ resp'.access.sub = Str(r.actor)
                /\ resp'.refresh.sub = Str(r.actor)
          /\ resp'.status = 200 => resp'.access # NoToken
          /\ failures' # failures =>
                /\ resp'.status = 500
                /\ resp'.access = NoToken
                /\ resp'.refresh = NoToken
                /\ audit' = audit
          /\ resp'.status # 200 =>
                /\ resp'.access = NoToken
                /\ resp'.refresh = NoToken
                /\ audit' = audit
                /\ r.audited = <<>>
      ]_vars

\* a login whose audit insert failed was answered without tokens
C29_Witness ==
    /\ Answered
    /\ resp.req.kind = "login"
    /\ resp.req.actor # NoId
    /\ resp.status = 500
    /\ resp.access = NoToken
    /\ failures = 1
    /\ audit = <<>>

\* C30: the audit record of an update of a user or of a profile names only
\* fields the update changed: old_values and new_values have the same
\* fields, and each field's old value differs from its new value.
C30_ChangedFieldsOnly ==
    \A i \in 1..Len(audit) :
        (/\ audit[i].action_type = "UPDATE"
         /\ audit[i].table_name = "users"
         /\ audit[i].new_values # [password_changed |-> TRUE]) =>
            /\ DOMAIN audit[i].old_values = DOMAIN audit[i].new_values
            /\ \A f \in DOMAIN audit[i].new_values :
                  audit[i].old_values[f] # audit[i].new_values[f]

\* C31: no step of an update_profile request changes the role or the
\* active flag of any user, whatever role or is_active its body carries: when
\* the request is answered, the caller's role and flag are the ones it was
\* authenticated with.
C31_ProfileKeepsRole ==
    [][ /\ \A s \in Slots :
             (StepOf(s) /\ RequestOf(s).kind = "update_profile") =>
                 /\ DOMAIN users' = DOMAIN users
                 /\ \A i \in DOMAIN users :
                       /\ users'[i].role = users[i].role
                       /\ users'[i].is_active = users[i].is_active
        /\ (resp' # NoResp /\ resp'.req.kind = "update_profile"
              /\ resp'.req.actor # NoId) =>
                 /\ users'[resp'.req.actor].role = resp'.req.cu.role
                 /\ users'[resp'.req.actor].is_active = resp'.req.cu.is_active
      ]_vars

\* the viewer's update_profile with role admin in its body was answered with
\* success, its full_name stored, and the viewer is still a viewer
C31_Witness ==
    /\ Answered
    /\ resp.req.kind = "update_profile"
    /\ resp.status = 200
    /\ resp.req.a.role = "admin"
    /\ resp.req.cu.role = "viewer"
    /\ resp.req.committed
    /\ users[resp.req.actor].full_name = resp.req.a.full_name
    /\ users[resp.req.actor].role = "viewer"
    /\ users[resp.req.actor].is_active

\* C32: whoever a token authenticates is the user whose id is the token's
\* sub claim, with both get_current_user implementations, whatever username
\* the token carries and whoever holds that username now; every request that
\* was let in acts as that user.
C32_SubjectIsIdentity ==
    /\ \A tok \in Presented :
          /\ get_current_user(tok, users, now).status = 200 =>
                get_current_user(tok, users, now).uid = IntOf(tok.sub)
          /\ security_get_current_user(tok, users, now).status = 200 =>
                security_get_current_user(tok, users, now).uid = IntOf(tok.sub)
    /\ \A s \in InFlight :
          (slots[s].kind \in BearerKinds /\ slots[s].actor # NoId) =>
              slots[s].actor = IntOf(slots[s].tok.sub)
    /\ (Answered /\ resp.req.kind \in BearerKinds /\ resp.req.actor # NoId) =>
              resp.req.actor = IntOf(resp.req.tok.sub)

\* a token of user 2 that carries the username another user holds now was
\* presented after user 2 changed its username, and authenticated user 2
C32_Witness ==
    /\ Answered
    /\ resp.req.kind = "me"
    /\ resp.status = 200
    /\ resp.req.actor = IntOf(resp.req.tok.sub)
    /\ \E i \in DOMAIN users :
          i # resp.req.actor /\ users[i].username = resp.req.tok.username
    /\ users[resp.req.actor].username # SeedUsers[resp.req.actor].username

\* the tokens a client can present, and a well-signed one whose subject is
\* no integer
WithOddSubject ==
    Presented \cup {[create_access_token(TokenData(users, 1), now) EXCEPT !.sub = "me"]}

\* C33: the get_current_user of app.routers.auth and the one of
\* app.core.security accept the same tokens in every state of the store and
\* at every time, and give the same user for each token they accept; a
\* request that either let in acts as the user the other would give.
C33_SameAuthentication ==
    /\ \A tok \in WithOddSubject :
          LET a == get_current_user(tok, users, now)
              b == security_get_current_user(tok, users, now)
          IN /\ a.status = 200 <=> b.status = 200
             /\ a.status = 200 => a.uid = b.uid
    /\ (Answered /\ resp.req.kind \in BearerKinds /\ resp.req.actor # NoId
          /\ resp.req.actor \in DOMAIN users /\ users[resp.req.actor] = resp.req.cu) =>
          /\ get_current_user(resp.req.tok, users, resp.req.at) = Ok(resp.req.actor)
          /\ security_get_current_user(resp.req.tok, users, resp.req.at)
                = Ok(resp.req.actor)

\* after the store has changed, a ledger request was let in by the one
\* implementation with a token the other accepts for the same user, while
\* both turn away some other token
C33_Witness ==
    /\ Answered
    /\ resp.req.kind = "get_balance"
    /\ resp.status = 200
    /\ users # SeedUsers
    /\ get_current_user(resp.req.tok, users, now) = Ok(resp.req.actor)
    /\ \E tok \in WithOddSubject :
          /\ get_current_user(tok, users, now).status = 401
          /\ security_get_current_user(tok, users, now).status = 401
    /\ \E tok \in WithOddSubject :
          /\ get_current_user(tok, users, now).status = 500
          /\ security_get_current_user(tok, users, now).status = 401

\* the store after the role of user i was set to viewer, and after the
\* user was deactivated
Demoted(U, i) == [U EXCEPT ![i].role = "viewer"]
Deactivated(U, i) == [U EXCEPT ![i].is_active = FALSE]

C36_AdminAtCommit ==
    [][\A s \in Slots :
          (/\ slots[s].pc # "idle"
           /\ slots[s].kind \in MutationKinds
           /\ ~slots[s].committed
           /\ StepOf(s)
           /\ Taken(s).committed) =>
              /\ Taken(s).actor \in DOMAIN users'
              /\ users'[Taken(s).actor].is_active
              /\ users'[Taken(s).actor].role = "admin"]_vars

\* the audit records of updates of ledger entry id, in the order of the log
UpdatesOf(id) ==
    {i \in 1..Len(audit) :
        /\ audit[i].action_type = "UPDATE"
        /\ audit[i].table_name = "financial_records"
        /\ audit[i].record_id = id}

\* C37: the audit records of the updates of one ledger entry follow the
\* order of the commits, each record's old_values being the entry as it was
\* committed just before that update: of two records that follow one another
\* in the log, the later one's old_values are the earlier one's new_values.
C37_AuditFollowsCommits ==
    \A id \in 1..Len(records) :
       \A i, j \in UpdatesOf(id) :
          (i < j /\ ~\E k \in UpdatesOf(id) : i < k /\ k < j) =>
             audit[j].old_values = audit[i].new_values

\* the audit records of deletions of ledger entry id
DeletesOf(id) ==
    {i \in 1..Len(audit) :
        /\ audit[i].action_type = "DELETE"
        /\ audit[i].table_name = "financial_records"
        /\ audit[i].record_id = id}

\* C38: a ledger entry is deleted at most once: an entry with a DELETE
\* record is stored as deleted, an update or delete request answered 404 has
\* committed and audited nothing, and the audit log holds at most one DELETE
\* record per ledger entry, also when two deletions of it are in flight
\* together.
C38_DeletedOnce ==
    /\ \A id \in 1..Len(records) :
          /\ Cardinality(DeletesOf(id)) <= 1
          /\ DeletesOf(id) # {} => records[id].is_deleted
    /\ (Answered /\ resp.req.kind \in {"update_transaction", "delete_transaction"}
          /\ resp.status = 404) =>
          /\ ~resp.req.committed
          /\ resp.req.audited = <<>>

====
